---- MODULE Spec2Model ----
(***************************************************************************)
(* Lift control simulation: the naive (mechanical) and the improved lift   *)
(* dispatch algorithms of MainMenuWindow (src/src/app.py, and the older    *)
(* single-function versions in src/lift_control.py), as a state machine.   *)
(*                                                                         *)
(* A run is followed one loop step at a time: every floor move, every scan *)
(* that boards passengers and every scan that drops passengers off is one  *)
(* step.  The lists people_lift and people_pending of the code hold        *)
(* references to the dictionaries of people_overview; here they hold the   *)
(* positions (1..n) of those dictionaries in people_overview, and the      *)
(* code's "in" / "remove" (dictionary equality) compare the records the    *)
(* positions refer to.                                                     *)
(***************************************************************************)
EXTENDS Integers, Sequences, FiniteSets, TLC

\* Bounds of the model.
MaxFloors == 4
MaxPeople == 4
MaxCapacity == 2
\* num_floors + num_people is at most MaxSize (Spec) or WideSize
\* (WideSpec).
MaxSize == 6
WideSize == 7
\* No run takes more than MaxSteps loop steps (guard of every step of a run).
MaxSteps == 150
\* num_floors + num_people is at most GenSize in GenSpec.
GenSize == 5
\* The numbers typed into the configuration dialog are 0 .. MaxInput.
MaxInput == 2
\* num_floors + num_people is at most DrawSize in DrawSpec.
DrawSize == 6

\* The configuration MainMenuWindow.__init__ sets (ui_delay in milliseconds).
DefaultFloors == 5
DefaultCapacity == 5
DefaultDelay == 500
\* generate_random_people_config: ten people, floors 0 .. 4.
StartupPeople == 10
StartupTopFloor == 4

VARIABLES
    num_floors,            \* self.num_floors
    num_people,            \* self.num_people
    lift_capacity,         \* self.lift_capacity
    ui_delay,              \* self.ui_delay, in milliseconds
    line_edit_num_floors,      \* the texts of the line edits of the
    line_edit_num_people,      \* configuration dialog, each a sequence
    line_edit_lift_capacity,   \* of characters
    line_edit_ui_delay,
    lbl_save_successful,   \* the message the configuration dialog shows
    people_file,           \* the records stored in people_overview.json
    algorithm,             \* which run_simulation_* handler is (or was last) running
    pc,                    \* position inside the running handler
    people_overview,       \* the records loaded by the run
    people_lift,           \* the passengers in the lift, in boarding order
    people_pending,        \* improved algorithm: passengers to collect next
    lift_floor,            \* self.lift_floor
    lift_direction,        \* local lift_direction of the run
    person,                \* naive algorithm: position of the for loop (the anchor)
    distance_travelled,
    num_people_delivered,
    num_in_lift,
    events,                \* the moves, pick-ups, drop-offs and seedings of the run so far
    steps,                 \* the number of loop steps the run has taken
    naive_total,           \* total distance shown by the last complete naive run, -1 if none
    improved_total,        \* the same for the improved run
    draw_start_floor,      \* generate_new_sim: local start_floor of the record being drawn, -1 if none
    draw_target_floor      \* generate_new_sim: local target_floor last drawn, -1 if none

vars == <<num_floors, num_people, lift_capacity, ui_delay,
          line_edit_num_floors, line_edit_num_people, line_edit_lift_capacity,
          line_edit_ui_delay, lbl_save_successful, people_file, algorithm, pc,
          people_overview, people_lift, people_pending, lift_floor,
          lift_direction, person, distance_travelled, num_people_delivered,
          num_in_lift, events, steps, naive_total, improved_total,
          draw_start_floor, draw_target_floor>>

\* The locals of generate_new_sim while it draws a record.
draw_vars == <<draw_start_floor, draw_target_floor>>

dialog_vars == <<line_edit_num_floors, line_edit_num_people,
                 line_edit_lift_capacity, line_edit_ui_delay,
                 lbl_save_successful>>

\* What a run leaves alone: the configuration, the dialog, the stored
\* records and the locals of generate_new_sim.
config_vars == <<num_floors, num_people, lift_capacity, ui_delay, dialog_vars,
                 people_file, draw_vars>>

-----------------------------------------------------------------------------
(* Texts and Python's int(text) and str(number).                            *)

Digits == <<"0", "1", "2", "3", "4", "5", "6", "7", "8", "9">>

DigitValue(c) == CHOOSE d \in 0 .. 9 : Digits[d + 1] = c

IsDigit(c) == \E d \in 0 .. 9 : Digits[d + 1] = c

\* The text without its sign.
Unsigned(text) ==
    IF Len(text) > 0 /\ text[1] = "-" THEN Tail(text) ELSE text

\* int(text) returns a number; otherwise it raises ValueError.
CanParse(text) ==
    /\ Len(Unsigned(text)) > 0
    /\ \A k \in 1 .. Len(Unsigned(text)) : IsDigit(Unsigned(text)[k])

RECURSIVE DigitsValue(_)
DigitsValue(digits) ==
    IF Len(digits) = 0 THEN 0
    ELSE 10 * DigitsValue(SubSeq(digits, 1, Len(digits) - 1))
             + DigitValue(digits[Len(digits)])

\* int(text), for a text int accepts.
IntOf(text) ==
    IF text[1] = "-" THEN 0 - DigitsValue(Tail(text)) ELSE DigitsValue(text)

\* str(n), for n >= 0.
RECURSIVE Str(_)
Str(n) ==
    IF n < 10 THEN <<Digits[n + 1]>>
    ELSE Str(n \div 10) \o <<Digits[(n % 10) + 1]>>

-----------------------------------------------------------------------------
(* Passenger records and their generation.                                 *)

PersonDirection(start_floor, target_floor) ==
    IF target_floor - start_floor > 0 THEN "Up" ELSE "Down"

NewPerson(i, start_floor, target_floor) ==
    [id |-> i,
     start_floor |-> start_floor,
     target_floor |-> target_floor,
     current_floor |-> start_floor,
     delivered |-> FALSE,
     direction |-> PersonDirection(start_floor, target_floor)]

\* The draws without the loop that rejects a target equal to the start.
AnyFloorDraws(floors) == (0 .. floors - 1) \X (0 .. floors - 1)

\* The draws generate_new_sim keeps: a start floor and a different target floor.
FloorDraws(floors) ==
    {d \in (0 .. floors - 1) \X (0 .. floors - 1) : d[1] # d[2]}

\* Every list generate_new_sim can write for people people and floors floors.
GeneratedPeople(people, floors) ==
    {[i \in 1 .. people |-> NewPerson(i - 1, draws[i][1], draws[i][2])] :
        draws \in [1 .. people -> FloorDraws(floors)]}

-----------------------------------------------------------------------------
(* List helpers: Python's "in", list.remove and the generator of the while  *)
(* condition.                                                              *)

\* passenger in people (dictionary equality), lst a list of positions in po.
NeverContains(lst, p, po) == FALSE

Contains(lst, p, po) == \E k \in 1 .. Len(lst) : po[lst[k]] = po[p]

RECURSIVE RemoveFirstFrom(_, _, _, _)
RemoveFirstFrom(lst, p, po, k) ==
    IF k > Len(lst) THEN lst
    ELSE IF po[lst[k]] = po[p]
         THEN SubSeq(lst, 1, k - 1) \o SubSeq(lst, k + 1, Len(lst))
         ELSE RemoveFirstFrom(lst, p, po, k + 1)

\* lst.remove(p): drops the first entry equal to p.
Remove(lst, p, po) == RemoveFirstFrom(lst, p, po, 1)

\* next((d for d in people_overview if not d["delivered"]), None) is not None
AnyUndelivered(po) == \E i \in 1 .. Len(po) : ~po[i].delivered

Event(type, id, floor) == [type |-> type, id |-> id, floor |-> floor]

-----------------------------------------------------------------------------
(* Helpers shared by both algorithms.  A run's mutable lists and counters   *)
(* are passed around as one record s:                                      *)
(*   po (people_overview), lift (people_lift), pend (people_pending),      *)
(*   nd (num_people_delivered), nil (num_in_lift), ev (events).            *)

RunState == [po |-> people_overview, lift |-> people_lift, pend |-> people_pending,
             nd |-> num_people_delivered, nil |-> num_in_lift, ev |-> events]

\* mark_passenger_as_delivered: counters, the delivered flag of every record
\* with the passenger's id, then people_lift.remove(passenger).
MarkWithoutFlag(s, p, floor) ==
    [s EXCEPT !.nil = s.nil - 1,
              !.nd = s.nd + 1,
              !.lift = Remove(s.lift, p, s.po),
              !.ev = Append(s.ev, Event("DroppedOff", s.po[p].id, floor))]

MarkWithoutCount(s, p, floor) ==
    LET po1 == [i \in DOMAIN s.po |->
                   IF s.po[i].id = s.po[p].id
                   THEN [s.po[i] EXCEPT !.delivered = TRUE]
                   ELSE s.po[i]]
    IN [s EXCEPT !.nil = s.nil - 1,
                 !.po = po1,
                 !.lift = Remove(s.lift, p, po1),
                 !.ev = Append(s.ev, Event("DroppedOff", s.po[p].id, floor))]

MarkWithoutRemove(s, p, floor) ==
    [s EXCEPT !.nil = s.nil - 1,
              !.nd = s.nd + 1,
              !.po = [i \in DOMAIN s.po |->
                         IF s.po[i].id = s.po[p].id
                         THEN [s.po[i] EXCEPT !.delivered = TRUE]
                         ELSE s.po[i]],
              !.ev = Append(s.ev, Event("DroppedOff", s.po[p].id, floor))]

mark_passenger_as_delivered(s, p, floor) ==
    LET po1 == [i \in DOMAIN s.po |->
                   IF s.po[i].id = s.po[p].id
                   THEN [s.po[i] EXCEPT !.delivered = TRUE]
                   ELSE s.po[i]]
    IN [s EXCEPT !.nil = s.nil - 1,
                 !.nd = s.nd + 1,
                 !.po = po1,
                 !.lift = Remove(s.lift, p, po1),
                 !.ev = Append(s.ev, Event("DroppedOff", s.po[p].id, floor))]

\* update_current_floor_of_passengers, the part that rewrites the records:
\* every record with the id of a passenger in the lift gets the lift's floor.
StaleCurrentFloor(po, lift, floor) == po

UpdateStartFloorToo(po, lift, floor) ==
    [i \in DOMAIN po |->
        IF \E k \in 1 .. Len(lift) : po[lift[k]].id = po[i].id
        THEN [po[i] EXCEPT !.current_floor = floor, !.start_floor = floor]
        ELSE po[i]]

update_current_floor_of_passengers(po, lift, floor) ==
    [i \in DOMAIN po |->
        IF \E k \in 1 .. Len(lift) : po[lift[k]].id = po[i].id
        THEN [po[i] EXCEPT !.current_floor = floor]
        ELSE po[i]]

\* switch_lift_direction_if_at_top_or_bottom_floor
NeverSwitch(floor, direction, floors) == direction

SwitchAtEveryFloor(floor, direction, floors) ==
    IF direction = "Up" THEN "Down" ELSE "Up"

switch_lift_direction_if_at_top_or_bottom_floor(floor, direction, floors) ==
    LET d1 == IF floor = 0 /\ direction = "Down" THEN "Up" ELSE direction
    IN IF floor = floors - 1 /\ d1 = "Up" THEN "Down" ELSE d1

\* "if lift_direction == "Up": self.lift_floor += 1 else: self.lift_floor -= 1"
MoveTwoFloors(floor, direction) == IF direction = "Up" THEN floor + 2 ELSE floor - 2

MoveOneFloor(floor, direction) == IF direction = "Up" THEN floor + 1 ELSE floor - 1

-----------------------------------------------------------------------------
(* Initial state: the simulation window is open, a valid configuration has  *)
(* been saved and generate_new_sim has written the passenger records.      *)

InitWithin(size) ==
    /\ num_floors \in 2 .. MaxFloors
    /\ num_people \in 1 .. MaxPeople
    /\ num_floors + num_people <= size
    /\ lift_capacity \in 1 .. MaxCapacity
    /\ ui_delay = 1
    /\ line_edit_num_floors = Str(num_floors)
    /\ line_edit_num_people = Str(num_people)
    /\ line_edit_lift_capacity = Str(lift_capacity)
    /\ line_edit_ui_delay = Str(ui_delay)
    /\ lbl_save_successful = "Configuration saved successfully!"
    /\ people_file \in GeneratedPeople(num_people, num_floors)
    /\ algorithm = "none"
    /\ pc = "idle"
    /\ people_overview = <<>>
    /\ people_lift = <<>>
    /\ people_pending = <<>>
    /\ lift_floor = 0
    /\ lift_direction = "None"
    /\ person = 0
    /\ distance_travelled = 0
    /\ num_people_delivered = 0
    /\ num_in_lift = 0
    /\ events = <<>>
    /\ steps = 0
    /\ naive_total = -1
    /\ improved_total = -1
    /\ draw_start_floor = -1
    /\ draw_target_floor = -1

Init == InitWithin(MaxSize)

WideInit == InitWithin(WideSize)

\* One more loop step of the run.
Tick == steps < MaxSteps /\ steps' = steps + 1

\* No run is in progress: the buttons of the simulation window can be pressed.
Idle == pc \in {"idle", "done"}

-----------------------------------------------------------------------------
(* The naive (mechanical) algorithm.                                        *)

\* run_simulation_with_naive_algorithm up to its while loop.
RunNaive ==
    /\ Idle
    /\ algorithm' = "naive"
    /\ pc' = "n_loop"
    /\ num_people_delivered' = 0
    /\ distance_travelled' = 0
    /\ num_in_lift' = 0
    /\ people_lift' = <<>>
    /\ people_pending' = <<>>
    /\ lift_floor' = 0
    /\ lift_direction' = "Up"
    /\ people_overview' = people_file
    /\ person' = 0
    /\ events' = <<>>
    /\ steps' = 0
    /\ naive_total' = -1
    /\ UNCHANGED <<config_vars, improved_total>>

\* The positions the for loop has still to visit that hold an undelivered person.
NaiveRemaining ==
    {j \in person + 1 .. Len(people_overview) : ~people_overview[j].delivered}

\* The for loop taking the last undelivered person instead of the next one.
NaiveSelectLast ==
    /\ pc = "n_loop"
    /\ Tick
    /\ AnyUndelivered(people_overview)
    /\ IF NaiveRemaining # {}
       THEN /\ person' = CHOOSE j \in NaiveRemaining :
                            \A k \in NaiveRemaining : j >= k
            /\ pc' = "n_collect"
       ELSE /\ person' = 0
            /\ pc' = "n_loop"
    /\ UNCHANGED <<config_vars, algorithm, people_overview, people_lift,
                   people_pending, lift_floor, lift_direction,
                   distance_travelled, num_people_delivered, num_in_lift,
                   events, naive_total, improved_total>>

\* "for person in people_overview: if person["delivered"] is False": the loop
\* advances to the next undelivered person; when the list is exhausted the
\* while condition is evaluated again and the for loop restarts.
NaiveSelect ==
    /\ pc = "n_loop"
    /\ Tick
    /\ AnyUndelivered(people_overview)
    /\ IF NaiveRemaining # {}
       THEN /\ person' = CHOOSE j \in NaiveRemaining :
                            \A k \in NaiveRemaining : j <= k
            /\ pc' = "n_collect"
       ELSE /\ person' = 0
            /\ pc' = "n_loop"
    /\ UNCHANGED <<config_vars, algorithm, people_overview, people_lift,
                   people_pending, lift_floor, lift_direction,
                   distance_travelled, num_people_delivered, num_in_lift,
                   events, naive_total, improved_total>>

\* The end of the run writing the records of the run back to the file.
NaiveFinishSavesRecords ==
    /\ pc = "n_loop"
    /\ Tick
    /\ NaiveRemaining = {}
    /\ ~AnyUndelivered(people_overview)
    /\ pc' = "done"
    /\ naive_total' = distance_travelled
    /\ people_file' = people_overview
    /\ UNCHANGED <<num_floors, num_people, lift_capacity, ui_delay,
                   dialog_vars, draw_vars, algorithm, people_overview, people_lift,
                   people_pending, lift_floor, lift_direction, person,
                   distance_travelled, num_people_delivered, num_in_lift,
                   events, improved_total>>

\* The while condition fails once the for loop has ended:
\* display_simulation_summary.
NaiveFinish ==
    /\ pc = "n_loop"
    /\ Tick
    /\ NaiveRemaining = {}
    /\ ~AnyUndelivered(people_overview)
    /\ pc' = "done"
    /\ naive_total' = distance_travelled
    /\ UNCHANGED <<config_vars, algorithm, people_overview, people_lift,
                   people_pending, lift_floor, lift_direction, person,
                   distance_travelled, num_people_delivered, num_in_lift,
                   events, improved_total>>

\* collect_person_with_naive_algorithm, one pass of its while loop.
NaiveCollectMove ==
    /\ pc = "n_collect"
    /\ Tick
    /\ lift_floor # people_overview[person].start_floor
    /\ lift_floor' = MoveOneFloor(lift_floor, lift_direction)
    /\ distance_travelled' = distance_travelled + 1
    /\ events' = Append(events, Event("MovedTo", -1, lift_floor'))
    /\ lift_direction' = switch_lift_direction_if_at_top_or_bottom_floor(
                             lift_floor', lift_direction, num_floors)
    /\ UNCHANGED <<config_vars, algorithm, pc, people_overview, people_lift,
                   people_pending, person, num_people_delivered, num_in_lift,
                   naive_total, improved_total>>

\* collect_person_with_naive_algorithm after its while loop: the anchor boards.
NaiveCollectBoard ==
    /\ pc = "n_collect"
    /\ Tick
    /\ lift_floor = people_overview[person].start_floor
    /\ people_lift' = Append(people_lift, person)
    /\ num_in_lift' = num_in_lift + 1
    /\ events' = Append(events, Event("PickedUp", people_overview[person].id, lift_floor))
    /\ pc' = "n_enroute"
    /\ UNCHANGED <<config_vars, algorithm, people_overview, people_pending,
                   lift_floor, lift_direction, person, distance_travelled,
                   num_people_delivered, naive_total, improved_total>>

RECURSIVE NaiveEnRouteScanAnyDirection(_, _)
NaiveEnRouteScanAnyDirection(i, s) ==
    IF i > Len(s.po) THEN s
    ELSE IF /\ ~Contains(s.lift, i, s.po)
            /\ s.po[i].start_floor = lift_floor
            /\ s.po[i].delivered = FALSE
         THEN NaiveEnRouteScanAnyDirection(i + 1,
                  [s EXCEPT !.lift = Append(s.lift, i),
                            !.nil = s.nil + 1,
                            !.ev = Append(s.ev, Event("PickedUp", s.po[i].id, lift_floor))])
         ELSE NaiveEnRouteScanAnyDirection(i + 1, s)

\* The en-route scan with the capacity test of the improved algorithm.
RECURSIVE NaiveEnRouteScanWithinCapacity(_, _)
NaiveEnRouteScanWithinCapacity(i, s) ==
    IF i > Len(s.po) THEN s
    ELSE IF /\ ~Contains(s.lift, i, s.po)
            /\ Len(s.lift) < lift_capacity
            /\ s.po[i].start_floor = lift_floor
            /\ s.po[i].delivered = FALSE
            /\ s.po[i].direction = s.po[person].direction
         THEN NaiveEnRouteScanWithinCapacity(i + 1,
                  [s EXCEPT !.lift = Append(s.lift, i),
                            !.nil = s.nil + 1,
                            !.ev = Append(s.ev, Event("PickedUp", s.po[i].id, lift_floor))])
         ELSE NaiveEnRouteScanWithinCapacity(i + 1, s)

\* deliver_person_with_naive_algorithm: "for en_route in people_overview",
\* from position i on, boarding everybody at the floor who goes the anchor's way.
RECURSIVE NaiveEnRouteScan(_, _)
NaiveEnRouteScan(i, s) ==
    IF i > Len(s.po) THEN s
    ELSE IF /\ ~Contains(s.lift, i, s.po)
            /\ s.po[i].start_floor = lift_floor
            /\ s.po[i].delivered = FALSE
            /\ s.po[i].direction = s.po[person].direction
         THEN NaiveEnRouteScan(i + 1,
                  [s EXCEPT !.lift = Append(s.lift, i),
                            !.nil = s.nil + 1,
                            !.ev = Append(s.ev, Event("PickedUp", s.po[i].id, lift_floor))])
         ELSE NaiveEnRouteScan(i + 1, s)

\* deliver_person_with_naive_algorithm: the en-route scan of one pass.
NaiveEnRoute ==
    /\ pc = "n_enroute"
    /\ Tick
    /\ people_lift # <<>>
    /\ LET s == NaiveEnRouteScan(1, RunState)
       IN /\ people_lift' = s.lift
          /\ num_in_lift' = s.nil
          /\ events' = s.ev
    /\ pc' = "n_move"
    /\ UNCHANGED <<config_vars, algorithm, people_overview, people_pending,
                   lift_floor, lift_direction, person, distance_travelled,
                   num_people_delivered, naive_total, improved_total>>

\* deliver_person_with_naive_algorithm: "while people_lift" fails, back to
\* the for loop of run_simulation_with_naive_algorithm.
NaiveDeliverEnd ==
    /\ pc = "n_enroute"
    /\ Tick
    /\ people_lift = <<>>
    /\ pc' = "n_loop"
    /\ UNCHANGED <<config_vars, algorithm, people_overview, people_lift,
                   people_pending, lift_floor, lift_direction, person,
                   distance_travelled, num_people_delivered, num_in_lift,
                   events, naive_total, improved_total>>

\* deliver_person_with_naive_algorithm: the move of one pass.
NaiveDeliverMove ==
    /\ pc = "n_move"
    /\ Tick
    /\ lift_floor' = MoveOneFloor(lift_floor, lift_direction)
    /\ people_overview' = update_current_floor_of_passengers(
                              people_overview, people_lift, lift_floor')
    /\ distance_travelled' = distance_travelled + 1
    /\ events' = Append(events, Event("MovedTo", -1, lift_floor'))
    /\ lift_direction' = switch_lift_direction_if_at_top_or_bottom_floor(
                             lift_floor', lift_direction, num_floors)
    /\ pc' = "n_drop"
    /\ UNCHANGED <<config_vars, algorithm, people_lift, people_pending, person,
                   num_people_delivered, num_in_lift, naive_total,
                   improved_total>>

\* "for passenger in people_lift[:]" over the copy snapshot, from entry k on.
RECURSIVE NaiveDropScan(_, _, _)
NaiveDropScan(snapshot, k, s) ==
    IF k > Len(snapshot) THEN s
    ELSE IF s.po[snapshot[k]].target_floor = lift_floor
         THEN NaiveDropScan(snapshot, k + 1,
                            mark_passenger_as_delivered(s, snapshot[k], lift_floor))
         ELSE NaiveDropScan(snapshot, k + 1, s)

\* deliver_person_with_naive_algorithm: the drop-offs of one pass.
NaiveDrop ==
    /\ pc = "n_drop"
    /\ Tick
    /\ LET s == NaiveDropScan(people_lift, 1, RunState)
       IN /\ people_overview' = s.po
          /\ people_lift' = s.lift
          /\ num_people_delivered' = s.nd
          /\ num_in_lift' = s.nil
          /\ events' = s.ev
    /\ pc' = "n_enroute"
    /\ UNCHANGED <<config_vars, algorithm, people_pending, lift_floor,
                   lift_direction, person, distance_travelled, naive_total,
                   improved_total>>

NaiveStep ==
    \/ NaiveSelect
    \/ NaiveFinish
    \/ NaiveCollectMove
    \/ NaiveCollectBoard
    \/ NaiveEnRoute
    \/ NaiveDeliverEnd
    \/ NaiveDeliverMove
    \/ NaiveDrop

-----------------------------------------------------------------------------
(* The improved algorithm.                                                  *)

\* run_simulation_with_improved_algorithm up to its while loop.
RunImproved ==
    /\ Idle
    /\ algorithm' = "improved"
    /\ pc' = "i_loop"
    /\ num_people_delivered' = 0
    /\ distance_travelled' = 0
    /\ num_in_lift' = 0
    /\ people_pending' = <<>>
    /\ people_lift' = <<>>
    /\ lift_floor' = 0
    /\ lift_direction' = "None"
    /\ people_overview' = people_file
    /\ person' = 0
    /\ events' = <<>>
    /\ steps' = 0
    /\ improved_total' = -1
    /\ UNCHANGED <<config_vars, naive_total>>

\* The while condition fails: display_simulation_summary.
ImprovedFinish ==
    /\ pc = "i_loop"
    /\ Tick
    /\ ~AnyUndelivered(people_overview)
    /\ pc' = "done"
    /\ improved_total' = distance_travelled
    /\ UNCHANGED <<config_vars, algorithm, people_overview, people_lift,
                   people_pending, lift_floor, lift_direction, person,
                   distance_travelled, num_people_delivered, num_in_lift,
                   events, naive_total>>

ImprovedSeedLast ==
    /\ pc = "i_loop"
    /\ Tick
    /\ AnyUndelivered(people_overview)
    /\ people_pending = <<>>
    /\ people_pending' =
           <<CHOOSE j \in 1 .. Len(people_overview) :
                 /\ ~people_overview[j].delivered
                 /\ \A k \in j + 1 .. Len(people_overview) :
                       people_overview[k].delivered>>
    /\ events' = Append(events, Event("Seeded",
                                      people_overview[people_pending'[1]].id,
                                      lift_floor))
    /\ UNCHANGED <<config_vars, algorithm, pc, people_overview, people_lift,
                   lift_floor, lift_direction, person, distance_travelled,
                   num_people_delivered, num_in_lift, naive_total,
                   improved_total>>

\* "if not people_pending": the first undelivered person becomes pending.
ImprovedSeed ==
    /\ pc = "i_loop"
    /\ Tick
    /\ AnyUndelivered(people_overview)
    /\ people_pending = <<>>
    /\ people_pending' =
           <<CHOOSE j \in 1 .. Len(people_overview) :
                 /\ ~people_overview[j].delivered
                 /\ \A k \in 1 .. j - 1 : people_overview[k].delivered>>
    /\ events' = Append(events, Event("Seeded",
                                      people_overview[people_pending'[1]].id,
                                      lift_floor))
    /\ UNCHANGED <<config_vars, algorithm, pc, people_overview, people_lift,
                   lift_floor, lift_direction, person, distance_travelled,
                   num_people_delivered, num_in_lift, naive_total,
                   improved_total>>

\* collect_person_with_improved_algorithm: the direction towards the start
\* floor of the first pending person.
CollectDirection(pend, po, floor) ==
    IF po[pend[1]].start_floor - floor > 0 THEN "Up"
    ELSE IF po[pend[1]].start_floor - floor < 0 THEN "Down"
    ELSE "None"

Abs(x) == IF x < 0 THEN -x ELSE x

RECURSIVE ImprovedPendingScanFullLift(_, _, _, _)
ImprovedPendingScanFullLift(i, s, direction, away) ==
    IF i > Len(s.po) THEN s
    ELSE IF /\ ~Contains(s.pend, i, s.po)
            /\ Len(s.lift) < lift_capacity
            /\ s.po[i].delivered = FALSE
            /\ s.po[i].direction = direction
            /\ Abs(s.po[i].target_floor - lift_floor) <= away
         THEN ImprovedPendingScanFullLift(i + 1,
                  [s EXCEPT !.pend = Append(s.pend, i)], direction, away)
         ELSE ImprovedPendingScanFullLift(i + 1, s, direction, away)

RECURSIVE ImprovedPendingScanAnyTarget(_, _, _, _)
ImprovedPendingScanAnyTarget(i, s, direction, away) ==
    IF i > Len(s.po) THEN s
    ELSE IF /\ ~Contains(s.pend, i, s.po)
            /\ Len(s.lift) < lift_capacity - 1
            /\ s.po[i].delivered = FALSE
            /\ s.po[i].direction = direction
         THEN ImprovedPendingScanAnyTarget(i + 1,
                  [s EXCEPT !.pend = Append(s.pend, i)], direction, away)
         ELSE ImprovedPendingScanAnyTarget(i + 1, s, direction, away)

\* collect_person_with_improved_algorithm: "for en_route in people_overview",
\* from position i on, with direction and away computed before the loop.
RECURSIVE ImprovedPendingScan(_, _, _, _)
ImprovedPendingScan(i, s, direction, away) ==
    IF i > Len(s.po) THEN s
    ELSE IF /\ ~Contains(s.pend, i, s.po)
            /\ Len(s.lift) < lift_capacity - 1
            /\ s.po[i].delivered = FALSE
            /\ s.po[i].direction = direction
            /\ Abs(s.po[i].target_floor - lift_floor) <= away
         THEN ImprovedPendingScan(i + 1, [s EXCEPT !.pend = Append(s.pend, i)],
                                  direction, away)
         ELSE ImprovedPendingScan(i + 1, s, direction, away)

\* collect_person_with_improved_algorithm up to the end of the loop that adds
\* people to people_pending.
ImprovedBatch ==
    /\ pc = "i_loop"
    /\ Tick
    /\ AnyUndelivered(people_overview)
    /\ people_pending # <<>>
    /\ lift_direction' = CollectDirection(people_pending, people_overview, lift_floor)
    /\ LET away == Abs(people_overview[people_pending[1]].start_floor - lift_floor)
       IN people_pending' =
              IF lift_direction' \in {"Up", "Down"}
              THEN ImprovedPendingScan(1, RunState, lift_direction', away).pend
              ELSE people_pending
    /\ pc' = "i_board"
    /\ UNCHANGED <<config_vars, algorithm, people_overview, people_lift,
                   lift_floor, person, distance_travelled,
                   num_people_delivered, num_in_lift, events, naive_total,
                   improved_total>>

\* "for waiting in people_pending[:]" over the copy snapshot, from entry k on.
RECURSIVE ImprovedBoardScan(_, _, _)
ImprovedBoardScan(snapshot, k, s) ==
    IF k > Len(snapshot) THEN s
    ELSE IF s.po[snapshot[k]].start_floor = lift_floor
         THEN ImprovedBoardScan(snapshot, k + 1,
                  [s EXCEPT !.lift = Append(s.lift, snapshot[k]),
                            !.pend = Remove(s.pend, snapshot[k], s.po),
                            !.nil = s.nil + 1,
                            !.ev = Append(s.ev, Event("PickedUp", s.po[snapshot[k]].id,
                                                      lift_floor))])
         ELSE ImprovedBoardScan(snapshot, k + 1, s)

\* collect_person_with_improved_algorithm: the pending people at the lift's
\* floor board.
ImprovedBoard ==
    /\ pc = "i_board"
    /\ Tick
    /\ LET s == ImprovedBoardScan(people_pending, 1, RunState)
       IN /\ people_lift' = s.lift
          /\ people_pending' = s.pend
          /\ num_in_lift' = s.nil
          /\ events' = s.ev
    /\ pc' = "i_cmove"
    /\ UNCHANGED <<config_vars, algorithm, people_overview, lift_floor,
                   lift_direction, person, distance_travelled,
                   num_people_delivered, naive_total, improved_total>>

ImprovedCollectMoveSkips ==
    /\ pc = "i_cmove"
    /\ Tick
    /\ people_pending # <<>>
    /\ pc' = "i_drop"
    /\ UNCHANGED <<config_vars, algorithm, people_overview, people_lift,
                   people_pending, lift_floor, lift_direction, person,
                   distance_travelled, num_people_delivered, num_in_lift,
                   events, naive_total, improved_total>>

ImprovedCollectMoveCountsTwice ==
    /\ pc = "i_cmove"
    /\ Tick
    /\ people_pending # <<>>
    /\ lift_floor' = MoveOneFloor(lift_floor, lift_direction)
    /\ people_overview' = update_current_floor_of_passengers(
                              people_overview, people_lift, lift_floor')
    /\ distance_travelled' = distance_travelled + 2
    /\ events' = Append(events, Event("MovedTo", -1, lift_floor'))
    /\ pc' = "i_drop"
    /\ UNCHANGED <<config_vars, algorithm, people_lift, people_pending,
                   lift_direction, person, num_people_delivered, num_in_lift,
                   naive_total, improved_total>>

\* collect_person_with_improved_algorithm: "if people_pending", the move
\* towards the next collection.
ImprovedCollectMove ==
    /\ pc = "i_cmove"
    /\ Tick
    /\ people_pending # <<>>
    /\ lift_floor' = MoveOneFloor(lift_floor, lift_direction)
    /\ people_overview' = update_current_floor_of_passengers(
                              people_overview, people_lift, lift_floor')
    /\ distance_travelled' = distance_travelled + 1
    /\ events' = Append(events, Event("MovedTo", -1, lift_floor'))
    /\ pc' = "i_drop"
    /\ UNCHANGED <<config_vars, algorithm, people_lift, people_pending,
                   lift_direction, person, num_people_delivered, num_in_lift,
                   naive_total, improved_total>>

\* collect_person_with_improved_algorithm: nobody is pending any more, the
\* lift stays and the deliver phase starts.
ImprovedCollectStay ==
    /\ pc = "i_cmove"
    /\ Tick
    /\ people_pending = <<>>
    /\ pc' = "i_drop"
    /\ UNCHANGED <<config_vars, algorithm, people_overview, people_lift,
                   people_pending, lift_floor, lift_direction, person,
                   distance_travelled, num_people_delivered, num_in_lift,
                   events, naive_total, improved_total>>

RECURSIVE ImprovedDropScanKeepsPending(_, _, _)
ImprovedDropScanKeepsPending(snapshot, k, s) ==
    IF k > Len(snapshot) THEN s
    ELSE IF s.po[snapshot[k]].target_floor = lift_floor
         THEN ImprovedDropScanKeepsPending(snapshot, k + 1,
                  mark_passenger_as_delivered(s, snapshot[k], lift_floor))
         ELSE ImprovedDropScanKeepsPending(snapshot, k + 1, s)

\* deliver_person_with_improved_algorithm: "for passenger in people_lift[:]"
\* over the copy snapshot, from entry k on.
RECURSIVE ImprovedDropScan(_, _, _)
ImprovedDropScan(snapshot, k, s) ==
    IF k > Len(snapshot) THEN s
    ELSE IF s.po[snapshot[k]].target_floor = lift_floor
         THEN LET s1 == mark_passenger_as_delivered(s, snapshot[k], lift_floor)
              IN ImprovedDropScan(snapshot, k + 1,
                     IF Contains(s1.pend, snapshot[k], s1.po)
                     THEN [s1 EXCEPT !.pend = Remove(s1.pend, snapshot[k], s1.po)]
                     ELSE s1)
         ELSE ImprovedDropScan(snapshot, k + 1, s)

\* deliver_person_with_improved_algorithm: the drop-offs of one pass.
ImprovedDrop ==
    /\ pc = "i_drop"
    /\ Tick
    /\ people_lift # <<>>
    /\ LET s == ImprovedDropScan(people_lift, 1, RunState)
       IN /\ people_overview' = s.po
          /\ people_lift' = s.lift
          /\ people_pending' = s.pend
          /\ num_people_delivered' = s.nd
          /\ num_in_lift' = s.nil
          /\ events' = s.ev
    /\ pc' = "i_enroute"
    /\ UNCHANGED <<config_vars, algorithm, lift_floor, lift_direction, person,
                   distance_travelled, naive_total, improved_total>>

ImprovedDeliverEndEarly ==
    /\ pc \in {"i_drop", "i_enroute"}
    /\ Tick
    /\ pc' = "i_loop"
    /\ UNCHANGED <<config_vars, algorithm, people_overview, people_lift,
                   people_pending, lift_floor, lift_direction, person,
                   distance_travelled, num_people_delivered, num_in_lift,
                   events, naive_total, improved_total>>

\* deliver_person_with_improved_algorithm: "while people_lift" fails, back
\* to the while loop of run_simulation_with_improved_algorithm.
ImprovedDeliverEnd ==
    /\ pc \in {"i_drop", "i_enroute"}
    /\ Tick
    /\ people_lift = <<>>
    /\ pc' = "i_loop"
    /\ UNCHANGED <<config_vars, algorithm, people_overview, people_lift,
                   people_pending, lift_floor, lift_direction, person,
                   distance_travelled, num_people_delivered, num_in_lift,
                   events, naive_total, improved_total>>

RECURSIVE ImprovedEnRouteScanAnyDirection(_, _)
ImprovedEnRouteScanAnyDirection(i, s) ==
    IF i > Len(s.po) THEN s
    ELSE IF /\ ~Contains(s.lift, i, s.po)
            /\ Len(s.lift) < lift_capacity
            /\ s.po[i].start_floor = lift_floor
            /\ s.po[i].delivered = FALSE
         THEN ImprovedEnRouteScanAnyDirection(i + 1,
                  [s EXCEPT !.lift = Append(s.lift, i),
                            !.nil = s.nil + 1,
                            !.ev = Append(s.ev, Event("PickedUp", s.po[i].id, lift_floor))])
         ELSE ImprovedEnRouteScanAnyDirection(i + 1, s)

\* deliver_person_with_improved_algorithm: "for en_route in people_overview",
\* from position i on.
RECURSIVE ImprovedEnRouteScan(_, _)
ImprovedEnRouteScan(i, s) ==
    IF i > Len(s.po) THEN s
    ELSE IF /\ ~Contains(s.lift, i, s.po)
            /\ Len(s.lift) < lift_capacity
            /\ s.po[i].start_floor = lift_floor
            /\ s.po[i].delivered = FALSE
            /\ s.po[i].direction = s.po[s.lift[1]].direction
         THEN ImprovedEnRouteScan(i + 1,
                  [s EXCEPT !.lift = Append(s.lift, i),
                            !.nil = s.nil + 1,
                            !.ev = Append(s.ev, Event("PickedUp", s.po[i].id, lift_floor))])
         ELSE ImprovedEnRouteScan(i + 1, s)

\* deliver_person_with_improved_algorithm: "if people_lift", the en-route scan.
ImprovedEnRoute ==
    /\ pc = "i_enroute"
    /\ Tick
    /\ people_lift # <<>>
    /\ LET s == ImprovedEnRouteScan(1, RunState)
       IN /\ people_lift' = s.lift
          /\ num_in_lift' = s.nil
          /\ events' = s.ev
    /\ pc' = "i_dmove"
    /\ UNCHANGED <<config_vars, algorithm, people_overview, people_pending,
                   lift_floor, lift_direction, person, distance_travelled,
                   num_people_delivered, naive_total, improved_total>>

\* deliver_person_with_improved_algorithm: the move in the direction of the
\* first person in the lift.
ImprovedDeliverMove ==
    /\ pc = "i_dmove"
    /\ Tick
    /\ lift_floor' = MoveOneFloor(lift_floor,
                                  people_overview[people_lift[1]].direction)
    /\ people_overview' = update_current_floor_of_passengers(
                              people_overview, people_lift, lift_floor')
    /\ distance_travelled' = distance_travelled + 1
    /\ events' = Append(events, Event("MovedTo", -1, lift_floor'))
    /\ pc' = "i_drop"
    /\ UNCHANGED <<config_vars, algorithm, people_lift, people_pending,
                   lift_direction, person, num_people_delivered, num_in_lift,
                   naive_total, improved_total>>

ImprovedStep ==
    \/ ImprovedFinish
    \/ ImprovedSeed
    \/ ImprovedBatch
    \/ ImprovedBoard
    \/ ImprovedCollectMove
    \/ ImprovedCollectStay
    \/ ImprovedDrop
    \/ ImprovedDeliverEnd
    \/ ImprovedEnRoute
    \/ ImprovedDeliverMove

-----------------------------------------------------------------------------

Next ==
    \/ RunNaive
    \/ RunImproved
    \/ NaiveStep
    \/ ImprovedStep

Spec == Init /\ [][Next]_vars

\* A step of the run in progress.
RunStep == NaiveStep \/ ImprovedStep

\* The guards of the steps of a run, in the order of NaiveStep and
\* ImprovedStep: the run in progress can take a step.
RunStepEnabled ==
    /\ steps < MaxSteps
    /\ \/ pc = "n_loop" /\ AnyUndelivered(people_overview)
       \/ pc = "n_loop" /\ NaiveRemaining = {} /\ ~AnyUndelivered(people_overview)
       \/ pc = "n_collect" /\ lift_floor # people_overview[person].start_floor
       \/ pc = "n_collect" /\ lift_floor = people_overview[person].start_floor
       \/ pc = "n_enroute" /\ people_lift # <<>>
       \/ pc = "n_enroute" /\ people_lift = <<>>
       \/ pc = "n_move"
       \/ pc = "n_drop"
       \/ pc = "i_loop" /\ ~AnyUndelivered(people_overview)
       \/ pc = "i_loop" /\ AnyUndelivered(people_overview) /\ people_pending = <<>>
       \/ pc = "i_loop" /\ AnyUndelivered(people_overview) /\ people_pending # <<>>
       \/ pc = "i_board"
       \/ pc = "i_cmove" /\ people_pending # <<>>
       \/ pc = "i_cmove" /\ people_pending = <<>>
       \/ pc = "i_drop" /\ people_lift # <<>>
       \/ pc \in {"i_drop", "i_enroute"} /\ people_lift = <<>>
       \/ pc = "i_enroute" /\ people_lift # <<>>
       \/ pc = "i_dmove"

\* The same program on the larger configurations.
WideSpec == WideInit /\ [][Next]_vars

-----------------------------------------------------------------------------
(* The main menu, the configuration dialog and the generation of the       *)
(* passenger records.                                                      *)

\* No handler is running: the buttons of the main menu and of the
\* configuration dialog can be pressed (pc = "menu": the simulation window
\* has not been opened yet).
MenuIdle == pc = "menu" \/ Idle

\* The user types a text into one line edit of the configuration dialog.
EditText(texts) ==
    /\ MenuIdle
    /\ \E text \in texts :
          \/ /\ line_edit_num_floors' = text
             /\ UNCHANGED <<line_edit_num_people, line_edit_lift_capacity,
                            line_edit_ui_delay>>
          \/ /\ line_edit_num_people' = text
             /\ UNCHANGED <<line_edit_num_floors, line_edit_lift_capacity,
                            line_edit_ui_delay>>
          \/ /\ line_edit_lift_capacity' = text
             /\ UNCHANGED <<line_edit_num_floors, line_edit_num_people,
                            line_edit_ui_delay>>
          \/ /\ line_edit_ui_delay' = text
             /\ UNCHANGED <<line_edit_num_floors, line_edit_num_people,
                            line_edit_lift_capacity>>
    /\ UNCHANGED <<num_floors, num_people, lift_capacity, ui_delay,
                   lbl_save_successful, people_file, algorithm, pc,
                   people_overview, people_lift, people_pending, lift_floor,
                   lift_direction, person, distance_travelled,
                   num_people_delivered, num_in_lift, events, steps,
                   naive_total, improved_total, draw_vars>>

\* save_sim with two floors as the smallest building rejected too late.
SaveOutcomeOneFloor(floors, people, capacity, delay) ==
    IF floors = <<>> \/ people = <<>> \/ capacity = <<>> \/ delay = <<>>
    THEN "Please fill in all the configuration options!"
    ELSE IF ~CanParse(floors) THEN "ValueError"
    ELSE IF IntOf(floors) < 1 THEN "Please configure at least two floors!"
    ELSE IF ~CanParse(people) THEN "ValueError"
    ELSE IF IntOf(people) <= 0 THEN "Please configure at least one person!"
    ELSE IF ~CanParse(capacity) THEN "ValueError"
    ELSE IF IntOf(capacity) <= 0
         THEN "Please configure a lift capacity of at least one person!"
    ELSE IF ~CanParse(delay) THEN "ValueError"
    ELSE IF IntOf(delay) <= 0
         THEN "Please configure a UI delay of at least one millisecond!"
    ELSE "Configuration saved successfully!"

\* save_sim, the if / elif chain: the message it shows for the four texts,
\* or "ValueError" when an int(...) of the chain raises.
SaveOutcome(floors, people, capacity, delay) ==
    IF floors = <<>> \/ people = <<>> \/ capacity = <<>> \/ delay = <<>>
    THEN "Please fill in all the configuration options!"
    ELSE IF ~CanParse(floors) THEN "ValueError"
    ELSE IF IntOf(floors) <= 1 THEN "Please configure at least two floors!"
    ELSE IF ~CanParse(people) THEN "ValueError"
    ELSE IF IntOf(people) <= 0 THEN "Please configure at least one person!"
    ELSE IF ~CanParse(capacity) THEN "ValueError"
    ELSE IF IntOf(capacity) <= 0
         THEN "Please configure a lift capacity of at least one person!"
    ELSE IF ~CanParse(delay) THEN "ValueError"
    ELSE IF IntOf(delay) <= 0
         THEN "Please configure a UI delay of at least one millisecond!"
    ELSE "Configuration saved successfully!"

SaveSimKeepsRejected ==
    /\ MenuIdle
    /\ LET outcome == SaveOutcome(line_edit_num_floors, line_edit_num_people,
                                  line_edit_lift_capacity, line_edit_ui_delay)
       IN /\ lbl_save_successful' =
                 IF outcome = "ValueError" THEN lbl_save_successful ELSE outcome
          /\ IF /\ CanParse(line_edit_num_floors)
                /\ CanParse(line_edit_num_people)
                /\ CanParse(line_edit_lift_capacity)
                /\ CanParse(line_edit_ui_delay)
             THEN /\ num_floors' = IntOf(line_edit_num_floors)
                  /\ num_people' = IntOf(line_edit_num_people)
                  /\ lift_capacity' = IntOf(line_edit_lift_capacity)
                  /\ ui_delay' = IntOf(line_edit_ui_delay)
             ELSE UNCHANGED <<num_floors, num_people, lift_capacity, ui_delay>>
    /\ UNCHANGED <<line_edit_num_floors, line_edit_num_people,
                   line_edit_lift_capacity, line_edit_ui_delay, people_file,
                   algorithm, pc, people_overview, people_lift, people_pending,
                   lift_floor, lift_direction, person, distance_travelled,
                   num_people_delivered, num_in_lift, events, steps,
                   naive_total, improved_total, draw_vars>>

\* save_sim: the 'Save Simulation' button of the configuration dialog.  The
\* configuration is kept as the texts and read with int(...) wherever it is
\* used; here it is kept as the numbers.  A ValueError ends the handler
\* before it has written anything.
SaveSim ==
    /\ MenuIdle
    /\ LET outcome == SaveOutcome(line_edit_num_floors, line_edit_num_people,
                                  line_edit_lift_capacity, line_edit_ui_delay)
       IN /\ lbl_save_successful' =
                 IF outcome = "ValueError" THEN lbl_save_successful ELSE outcome
          /\ IF outcome = "Configuration saved successfully!"
             THEN /\ num_floors' = IntOf(line_edit_num_floors)
                  /\ num_people' = IntOf(line_edit_num_people)
                  /\ lift_capacity' = IntOf(line_edit_lift_capacity)
                  /\ ui_delay' = IntOf(line_edit_ui_delay)
             ELSE UNCHANGED <<num_floors, num_people, lift_capacity, ui_delay>>
    /\ UNCHANGED <<line_edit_num_floors, line_edit_num_people,
                   line_edit_lift_capacity, line_edit_ui_delay, people_file,
                   algorithm, pc, people_overview, people_lift, people_pending,
                   lift_floor, lift_direction, person, distance_travelled,
                   num_people_delivered, num_in_lift, events, steps,
                   naive_total, improved_total, draw_vars>>

\* generate_new_sim: new records for the current configuration are written
\* to the file and the displayed counters are reset to 0.  The lists and
\* totals of an earlier run belong to the replaced records and are dropped.
generate_new_sim ==
    /\ people_file' \in GeneratedPeople(num_people, num_floors)
    /\ algorithm' = "none"
    /\ pc' = "idle"
    /\ people_overview' = <<>>
    /\ people_lift' = <<>>
    /\ people_pending' = <<>>
    /\ lift_direction' = "None"
    /\ person' = 0
    /\ distance_travelled' = 0
    /\ num_people_delivered' = 0
    /\ num_in_lift' = 0
    /\ events' = <<>>
    /\ steps' = 0
    /\ naive_total' = -1
    /\ improved_total' = -1
    /\ UNCHANGED <<num_floors, num_people, lift_capacity, ui_delay, dialog_vars,
                   draw_vars>>

\* The 'Generate New Simulation' button of the simulation window.
GenerateNewSim ==
    /\ Idle
    /\ generate_new_sim
    /\ UNCHANGED lift_floor

\* open_mwindow_lift_sim: the 'Open Simulation' button of the main menu.
OpenSim ==
    /\ MenuIdle
    /\ lift_floor' = 0
    /\ generate_new_sim

\* The state after MainMenuWindow.__init__: the default configuration, the
\* number of people of the passenger file (here a file of one record), no
\* dialog and no simulation window yet.
MenuInit ==
    /\ num_floors = DefaultFloors
    /\ people_file = <<NewPerson(0, 0, 1)>>
    /\ num_people = Len(people_file)
    /\ lift_capacity = DefaultCapacity
    /\ ui_delay = DefaultDelay
    /\ line_edit_num_floors = <<>>
    /\ line_edit_num_people = <<>>
    /\ line_edit_lift_capacity = <<>>
    /\ line_edit_ui_delay = <<>>
    /\ lbl_save_successful = ""
    /\ algorithm = "none"
    /\ pc = "menu"
    /\ people_overview = <<>>
    /\ people_lift = <<>>
    /\ people_pending = <<>>
    /\ lift_floor = 0
    /\ lift_direction = "None"
    /\ person = 0
    /\ distance_travelled = 0
    /\ num_people_delivered = 0
    /\ num_in_lift = 0
    /\ events = <<>>
    /\ steps = 0
    /\ naive_total = -1
    /\ improved_total = -1
    /\ draw_start_floor = -1
    /\ draw_target_floor = -1

\* The simulation window with its three buttons, on the small configurations.
GenInit == InitWithin(GenSize)

GenNext == Next \/ GenerateNewSim

GenSpec == GenInit /\ [][GenNext]_vars

\* The texts tried in the configuration dialog: nothing, a lone sign, and
\* the numbers 0 .. MaxInput.
InputTexts == {<<>>, <<"-">>} \cup {Str(n) : n \in 0 .. MaxInput}

\* The configuration dialog alone.
SaveNext == EditText(InputTexts) \/ SaveSim

SaveSpec == MenuInit /\ [][SaveNext]_vars

-----------------------------------------------------------------------------
(* generate_new_sim one draw at a time: the for loop over the people and   *)
(* the "while True" loop that draws target_floor until it differs from     *)
(* start_floor.                                                            *)

\* generate_new_sim has just been called with a saved configuration and has
\* emptied its list people_overview.
DrawInit ==
    /\ num_floors \in 2 .. MaxFloors
    /\ num_people \in 1 .. MaxPeople
    /\ num_floors + num_people <= DrawSize
    /\ lift_capacity = DefaultCapacity
    /\ ui_delay = 1
    /\ line_edit_num_floors = Str(num_floors)
    /\ line_edit_num_people = Str(num_people)
    /\ line_edit_lift_capacity = Str(lift_capacity)
    /\ line_edit_ui_delay = Str(ui_delay)
    /\ lbl_save_successful = "Configuration saved successfully!"
    /\ people_file = <<NewPerson(0, 0, 1)>>
    /\ algorithm = "none"
    /\ pc = "g_loop"
    /\ people_overview = <<>>
    /\ people_lift = <<>>
    /\ people_pending = <<>>
    /\ lift_floor = 0
    /\ lift_direction = "None"
    /\ person = 0
    /\ distance_travelled = 0
    /\ num_people_delivered = 0
    /\ num_in_lift = 0
    /\ events = <<>>
    /\ steps = 0
    /\ naive_total = -1
    /\ improved_total = -1
    /\ draw_start_floor = -1
    /\ draw_target_floor = -1

\* "for i in range(int(self.num_people))": start_floor is drawn.
GenDrawStart ==
    /\ pc = "g_loop"
    /\ Len(people_overview) < num_people
    /\ draw_start_floor' \in 0 .. num_floors - 1
    /\ draw_target_floor' = -1
    /\ pc' = "g_target"
    /\ UNCHANGED <<num_floors, num_people, lift_capacity, ui_delay,
                   dialog_vars, people_file, algorithm, people_overview,
                   people_lift, people_pending, lift_floor, lift_direction,
                   person, distance_travelled, num_people_delivered,
                   num_in_lift, events, steps, naive_total, improved_total>>

\* "while True": the target_floor drawn equals start_floor, the loop goes on.
GenTargetRejected ==
    /\ pc = "g_target"
    /\ draw_target_floor' = draw_start_floor
    /\ UNCHANGED <<num_floors, num_people, lift_capacity, ui_delay,
                   dialog_vars, people_file, algorithm, pc, people_overview,
                   people_lift, people_pending, lift_floor, lift_direction,
                   person, distance_travelled, num_people_delivered,
                   num_in_lift, events, steps, naive_total, improved_total,
                   draw_start_floor>>

GenTargetAcceptedAbove ==
    /\ pc = "g_target"
    /\ \E target_floor \in 0 .. num_floors - 1 :
          /\ target_floor > draw_start_floor
          /\ draw_target_floor' = target_floor
          /\ people_overview' =
                 Append(people_overview,
                        NewPerson(Len(people_overview), draw_start_floor,
                                  target_floor))
    /\ pc' = "g_loop"
    /\ UNCHANGED <<num_floors, num_people, lift_capacity, ui_delay,
                   dialog_vars, people_file, algorithm, people_lift,
                   people_pending, lift_floor, lift_direction, person,
                   distance_travelled, num_people_delivered, num_in_lift,
                   events, steps, naive_total, improved_total,
                   draw_start_floor>>

\* "if start_floor != target_floor: break": the record is appended.
GenTargetAccepted ==
    /\ pc = "g_target"
    /\ \E target_floor \in 0 .. num_floors - 1 :
          /\ target_floor # draw_start_floor
          /\ draw_target_floor' = target_floor
          /\ people_overview' =
                 Append(people_overview,
                        NewPerson(Len(people_overview), draw_start_floor,
                                  target_floor))
    /\ pc' = "g_loop"
    /\ UNCHANGED <<num_floors, num_people, lift_capacity, ui_delay,
                   dialog_vars, people_file, algorithm, people_lift,
                   people_pending, lift_floor, lift_direction, person,
                   distance_travelled, num_people_delivered, num_in_lift,
                   events, steps, naive_total, improved_total,
                   draw_start_floor>>

\* The for loop has ended: the list is written to the file.
GenWrite ==
    /\ pc = "g_loop"
    /\ Len(people_overview) = num_people
    /\ people_file' = people_overview
    /\ people_overview' = <<>>
    /\ draw_start_floor' = -1
    /\ draw_target_floor' = -1
    /\ pc' = "idle"
    /\ UNCHANGED <<num_floors, num_people, lift_capacity, ui_delay,
                   dialog_vars, algorithm, people_lift, people_pending,
                   lift_floor, lift_direction, person, distance_travelled,
                   num_people_delivered, num_in_lift, events, steps,
                   naive_total, improved_total>>

DrawNext ==
    \/ GenDrawStart
    \/ GenTargetRejected
    \/ GenTargetAccepted
    \/ GenWrite

\* The random draws are fair: an outcome that stays possible is drawn in
\* the end, and the loops go on while they can.
DrawSpec ==
    /\ DrawInit
    /\ [][DrawNext]_vars
    /\ WF_vars(GenDrawStart)
    /\ WF_vars(GenTargetAccepted)
    /\ WF_vars(GenWrite)

-----------------------------------------------------------------------------
(* save_sim of src/lift_control.py, the earlier single-file program.        *)

LegacyDelay == 1000

\* The configuration is kept as the text of the line edit and read with
\* int(...) wherever it is used; here the number is kept, and -1 for a text
\* on which every int(...) raises.
LegacyStored(text) == IF CanParse(text) THEN IntOf(text) ELSE -1

\* save_sim of src/lift_control.py, the if / elif chain: the message it
\* shows for the four texts, or "ValueError" when an int(...) raises.
LegacySaveOutcome(floors, people, capacity, delay) ==
    IF /\ floors # <<>> /\ people # <<>> /\ capacity # <<>> /\ delay # <<>>
       /\ CanParse(floors) /\ CanParse(people)
       /\ CanParse(capacity) /\ CanParse(delay)
       /\ IntOf(floors) > 1 /\ IntOf(people) > 0
       /\ IntOf(capacity) > 0 /\ IntOf(delay) > 0
    THEN "Configuration saved successfully!"
    ELSE IF ~CanParse(floors) THEN "ValueError"
    ELSE IF IntOf(floors) <= 1 THEN "Please configure at least two floors!"
    ELSE IF ~CanParse(people) THEN "ValueError"
    ELSE IF IntOf(people) <= 0 THEN "Please configure at least one person!"
    ELSE IF ~CanParse(capacity) THEN "ValueError"
    ELSE IF IntOf(capacity) <= 0
         THEN "Please configure a lift capacity of at least one person!"
    ELSE IF ~CanParse(delay) THEN "ValueError"
    ELSE IF IntOf(delay) <= 0
         THEN "Please configure a UI delay of at least one millisecond!"
    ELSE "Please fill all input fields to save your configuration."

\* save_sim of src/lift_control.py: the four texts are assigned to the
\* configuration first and validated afterwards.
LegacySaveSim ==
    /\ MenuIdle
    /\ num_floors' = LegacyStored(line_edit_num_floors)
    /\ num_people' = LegacyStored(line_edit_num_people)
    /\ lift_capacity' = LegacyStored(line_edit_lift_capacity)
    /\ ui_delay' = LegacyStored(line_edit_ui_delay)
    /\ LET outcome == LegacySaveOutcome(line_edit_num_floors,
                                        line_edit_num_people,
                                        line_edit_lift_capacity,
                                        line_edit_ui_delay)
       IN lbl_save_successful' =
              IF outcome = "ValueError" THEN lbl_save_successful ELSE outcome
    /\ UNCHANGED <<line_edit_num_floors, line_edit_num_people,
                   line_edit_lift_capacity, line_edit_ui_delay, people_file,
                   algorithm, pc, people_overview, people_lift, people_pending,
                   lift_floor, lift_direction, person, distance_travelled,
                   num_people_delivered, num_in_lift, events, steps,
                   naive_total, improved_total, draw_vars>>

\* The state after MainMenuWindow.__init__ of src/lift_control.py.
LegacyInit ==
    /\ num_floors = DefaultFloors
    /\ people_file = <<NewPerson(0, 0, 1)>>
    /\ num_people = Len(people_file)
    /\ lift_capacity = DefaultCapacity
    /\ ui_delay = LegacyDelay
    /\ line_edit_num_floors = <<>>
    /\ line_edit_num_people = <<>>
    /\ line_edit_lift_capacity = <<>>
    /\ line_edit_ui_delay = <<>>
    /\ lbl_save_successful = ""
    /\ algorithm = "none"
    /\ pc = "menu"
    /\ people_overview = <<>>
    /\ people_lift = <<>>
    /\ people_pending = <<>>
    /\ lift_floor = 0
    /\ lift_direction = "None"
    /\ person = 0
    /\ distance_travelled = 0
    /\ num_people_delivered = 0
    /\ num_in_lift = 0
    /\ events = <<>>
    /\ steps = 0
    /\ naive_total = -1
    /\ improved_total = -1
    /\ draw_start_floor = -1
    /\ draw_target_floor = -1

\* The configuration dialog of src/lift_control.py.
LegacyNext == EditText(InputTexts) \/ LegacySaveSim

LegacySpec == LegacyInit /\ [][LegacyNext]_vars

\* The whole program: the main menu, the dialog (with the numbers
\* 1 .. MaxInput typed in) and the simulation window.
MenuTexts == {Str(n) : n \in 1 .. MaxInput}

MenuNext ==
    \/ EditText(MenuTexts)
    \/ SaveSim
    \/ OpenSim
    \/ GenerateNewSim
    \/ Next

MenuSpec == MenuInit /\ [][MenuNext]_vars

-----------------------------------------------------------------------------
(* The start of the program without a passenger file: get_file_names calls *)
(* generate_random_people_config and MainMenuWindow.__init__ reads the     *)
(* file it wrote.                                                          *)

\* generate_random_people_config, person_config.
StartupPerson(i, start_floor, target_floor) ==
    [id |-> i,
     start_floor |-> start_floor,
     target_floor |-> target_floor,
     current_floor |-> start_floor,
     delivered |-> FALSE,
     direction |-> IF target_floor > start_floor THEN "up" ELSE "down"]

\* The draws generate_random_people_config keeps.
StartupDraws ==
    {d \in (0 .. StartupTopFloor) \X (0 .. StartupTopFloor) : d[1] # d[2]}

\* Files generate_random_people_config can write: those in which the people
\* with an even id share one draw and the people with an odd id another.
StartupFiles ==
    {[i \in 1 .. StartupPeople |->
         IF i % 2 = 1 THEN StartupPerson(i - 1, even[1], even[2])
                      ELSE StartupPerson(i - 1, odd[1], odd[2])] :
        even \in StartupDraws, odd \in StartupDraws}

\* The program is started and the passenger file does not exist.
StartupInit ==
    /\ num_floors = DefaultFloors
    /\ people_file = <<>>
    /\ num_people = 0
    /\ lift_capacity = DefaultCapacity
    /\ ui_delay = DefaultDelay
    /\ line_edit_num_floors = <<>>
    /\ line_edit_num_people = <<>>
    /\ line_edit_lift_capacity = <<>>
    /\ line_edit_ui_delay = <<>>
    /\ lbl_save_successful = ""
    /\ algorithm = "none"
    /\ pc = "startup"
    /\ people_overview = <<>>
    /\ people_lift = <<>>
    /\ people_pending = <<>>
    /\ lift_floor = 0
    /\ lift_direction = "None"
    /\ person = 0
    /\ distance_travelled = 0
    /\ num_people_delivered = 0
    /\ num_in_lift = 0
    /\ events = <<>>
    /\ steps = 0
    /\ naive_total = -1
    /\ improved_total = -1
    /\ draw_start_floor = -1
    /\ draw_target_floor = -1

\* get_file_names and MainMenuWindow.__init__: the file is written and the
\* main menu shows the default configuration with the file's number of
\* people.
Startup ==
    /\ pc = "startup"
    /\ people_file' \in StartupFiles
    /\ num_people' = Len(people_file')
    /\ pc' = "menu"
    /\ UNCHANGED <<num_floors, lift_capacity, ui_delay, dialog_vars, algorithm,
                   people_overview, people_lift, people_pending, lift_floor,
                   lift_direction, person, distance_travelled,
                   num_people_delivered, num_in_lift, events, steps,
                   naive_total, improved_total, draw_vars>>

\* The start of the program and the configuration dialog.
StartupNext == Startup \/ EditText(MenuTexts) \/ SaveSim

StartupSpec == StartupInit /\ [][StartupNext]_vars

-----------------------------------------------------------------------------
(* Properties.                                                              *)

Running == pc \notin {"menu", "idle", "done"}

InLift(i) == \E k \in 1 .. Len(people_lift) : people_lift[k] = i

AllDelivered == \A i \in 1 .. Len(people_overview) : people_overview[i].delivered

EventsOf(type, id) ==
    {k \in 1 .. Len(events) : events[k].type = type /\ events[k].id = id}

MoveEvents == {k \in 1 .. Len(events) : events[k].type = "MovedTo"}

\* C1: during a run of the improved algorithm the lift's floor stays within
\* 0 .. num_floors - 1.
C1_ImprovedFloorInRange ==
    algorithm = "improved" => (0 <= lift_floor /\ lift_floor <= num_floors - 1)

\* C2: during a run of the improved algorithm the lift never holds more than
\* lift_capacity passengers.
C2_ImprovedWithinCapacity ==
    algorithm = "improved" => Len(people_lift) <= lift_capacity

\* C3: a run of the improved algorithm terminates, and when it has terminated
\* every passenger is delivered and the delivered counter equals the number
\* of passengers.  Every step of a run counts in steps and needs
\* steps < MaxSteps, so a run that can take a step in every state before it
\* is done is done after at most MaxSteps steps.
C3_ImprovedTerminates ==
    algorithm = "improved" =>
        /\ Running => RunStepEnabled
        /\ pc = "done" =>
              /\ Len(people_overview) = num_people
              /\ AllDelivered
              /\ num_people_delivered = num_people

C3_Witness ==
    /\ algorithm = "improved"
    /\ pc = "done"
    /\ num_people >= 3
    /\ lift_capacity >= 2
    /\ num_people_delivered = num_people
    /\ distance_travelled >= 4

\* C4: a run of the naive algorithm terminates, and when it has terminated
\* every passenger is delivered and the delivered counter equals the number
\* of passengers (termination stated as for C3).
C4_NaiveTerminates ==
    algorithm = "naive" =>
        /\ Running => RunStepEnabled
        /\ pc = "done" =>
              /\ Len(people_overview) = num_people
              /\ AllDelivered
              /\ num_people_delivered = num_people

C4_Witness ==
    /\ algorithm = "naive"
    /\ pc = "done"
    /\ num_people >= 3
    /\ num_people_delivered = num_people
    /\ distance_travelled >= 2 * num_floors

\* C5: during a run of the naive algorithm the lift's floor stays within
\* 0 .. num_floors - 1, in the collect phase and in the deliver phase.
C5_NaiveFloorInRange ==
    algorithm = "naive" => (0 <= lift_floor /\ lift_floor <= num_floors - 1)

\* The lift has turned round at the top floor while delivering and came back
\* down to the bottom floor.
C5_Witness ==
    /\ algorithm = "naive"
    /\ pc = "n_drop"
    /\ lift_floor = 0
    /\ lift_direction = "Up"
    /\ \E k \in MoveEvents : events[k].floor = num_floors - 1

\* C6: every passenger is waiting, aboard or delivered and never two of them
\* at once (nobody in the lift is delivered), nobody is in the lift twice,
\* and a delivered flag never goes back to false during a run.
C6_PassengerStates ==
    /\ [](/\ \A k \in 1 .. Len(people_lift) :
                ~people_overview[people_lift[k]].delivered
          /\ \A k, l \in 1 .. Len(people_lift) :
                people_lift[k] = people_lift[l] => k = l)
    /\ [][Running =>
            \A i \in 1 .. Len(people_overview) :
                people_overview[i].delivered => people_overview'[i].delivered]_vars

\* One passenger waits, another is aboard and a third is delivered.
C6_Witness ==
    /\ Running
    /\ \E i, j, k \in 1 .. Len(people_overview) :
          /\ ~InLift(i) /\ ~people_overview[i].delivered
          /\ InLift(j) /\ ~people_overview[j].delivered
          /\ ~InLift(k) /\ people_overview[k].delivered

\* C7: in a complete run every passenger is picked up exactly once and
\* dropped off exactly once, picked up before dropped off, picked up with the
\* lift at the start floor and dropped off with the lift at the target floor.
C7_PickedUpOnceDroppedOnce ==
    pc = "done" =>
        \A i \in 1 .. Len(people_overview) :
            LET picks == EventsOf("PickedUp", people_overview[i].id)
                drops == EventsOf("DroppedOff", people_overview[i].id)
            IN /\ Cardinality(picks) = 1
               /\ Cardinality(drops) = 1
               /\ \A k \in picks :
                     /\ events[k].floor = people_overview[i].start_floor
                     /\ \A l \in drops : k < l
               /\ \A l \in drops :
                     events[l].floor = people_overview[i].target_floor

\* A complete run in which a passenger other than the first boarded en route.
C7_Witness ==
    /\ pc = "done"
    /\ num_people >= 2
    /\ \E k \in 1 .. Len(events) - 1 :
          /\ events[k].type = "PickedUp"
          /\ events[k + 1].type = "PickedUp"

\* C8: the distance starts at 0, a step that moves the lift moves it one
\* floor and adds one to the distance, no other step changes the distance,
\* and at the end of a run the distance is the number of moves made.
C8_DistanceCountsMoves ==
    /\ [](pc = "done" => distance_travelled = Cardinality(MoveEvents))
    /\ [][/\ Idle /\ pc' # pc => distance_travelled' = 0
          /\ Running /\ lift_floor' # lift_floor =>
                /\ lift_floor' - lift_floor \in {1, -1}
                /\ distance_travelled' = distance_travelled + 1
                /\ Len(events') = Len(events) + 1
                /\ events'[Len(events')].type = "MovedTo"
          /\ Running /\ lift_floor' = lift_floor =>
                /\ distance_travelled' = distance_travelled
                /\ Cardinality({k \in 1 .. Len(events') : events'[k].type = "MovedTo"})
                      = Cardinality(MoveEvents)]_vars

C8_Witness ==
    /\ pc = "done"
    /\ distance_travelled >= 5
    /\ distance_travelled = Cardinality(MoveEvents)

\* C9: a waiting passenger's current_floor is the start floor, a passenger
\* aboard has the lift's floor, a delivered passenger the target floor.
C9_CurrentFloorTracksPassenger ==
    \A i \in 1 .. Len(people_overview) :
        people_overview[i].current_floor =
            IF people_overview[i].delivered THEN people_overview[i].target_floor
            ELSE IF InLift(i) THEN lift_floor
            ELSE people_overview[i].start_floor

\* A passenger aboard has left the start floor and is not yet at the target,
\* while another is delivered and a third still waits.
C9_Witness ==
    /\ Running
    /\ \E i, j, k \in 1 .. Len(people_overview) :
          /\ InLift(i)
          /\ people_overview[i].current_floor # people_overview[i].start_floor
          /\ people_overview[i].current_floor # people_overview[i].target_floor
          /\ people_overview[j].delivered
          /\ ~InLift(k) /\ ~people_overview[k].delivered

\* C10 as stated: on the same passenger records the improved run's total
\* distance is never greater than the naive run's.
C10_ImprovedNeverLonger ==
    naive_total >= 0 /\ improved_total >= 0 => improved_total <= naive_total

\* C10 as amended: with a single passenger the improved run's total distance
\* is never greater than the naive run's.
C10_SinglePassengerNotLonger ==
    num_people = 1 /\ naive_total >= 0 /\ improved_total >= 0 =>
        improved_total <= naive_total

C10_Witness ==
    /\ num_people = 1
    /\ naive_total >= 0
    /\ improved_total >= 0
    /\ improved_total < naive_total

\* C11: in the naive algorithm the person selected as the next one to collect
\* is the undelivered person with the lowest id, its id is greater than the
\* id of the person selected before it in the run, and the people one en-route
\* scan lets into the lift join the lift in ascending order of id.
C11_AnchorsInIdOrder ==
    [][algorithm = "naive" =>
          /\ (pc = "n_loop" /\ pc' = "n_collect") =>
                /\ ~people_overview[person'].delivered
                /\ \A j \in 1 .. Len(people_overview) :
                      ~people_overview[j].delivered =>
                          people_overview[person'].id <= people_overview[j].id
                /\ person # 0 =>
                      people_overview[person'].id > people_overview[person].id
          /\ (pc = "n_enroute" /\ pc' = "n_move") =>
                /\ SubSeq(people_lift', 1, Len(people_lift)) = people_lift
                /\ \A k, l \in Len(people_lift) + 1 .. Len(people_lift') :
                      k < l => people_overview[people_lift'[k]].id
                                   < people_overview[people_lift'[l]].id]_vars

\* A later person than the first has been selected and collected, and the
\* en-route scan at its floor has let two more people in.
C11_Witness ==
    /\ algorithm = "naive"
    /\ pc = "n_move"
    /\ person >= 2
    /\ Len(events) >= 3
    /\ \A k \in Len(events) - 2 .. Len(events) : events[k].type = "PickedUp"
    /\ events[Len(events) - 2].id = people_overview[person].id

\* C12: in the naive algorithm the lift's direction changes only in a step
\* that moves the lift to floor 0 (from Down to Up) or to the top floor (from
\* Up to Down); a move that arrives at a floor in between keeps the direction,
\* while collecting and while delivering.
C12_TurnsOnlyAtExtremes ==
    [][algorithm = "naive" /\ Running /\ lift_direction' # lift_direction =>
          /\ lift_floor' # lift_floor
          /\ \/ lift_floor' = 0 /\ lift_direction = "Down" /\ lift_direction' = "Up"
             \/ /\ lift_floor' = num_floors - 1
                /\ lift_direction = "Up"
                /\ lift_direction' = "Down"]_vars

\* The lift has been to the top floor, then to floor 0, and is now on its way
\* up again at a floor in between.
C12_Witness ==
    /\ algorithm = "naive"
    /\ Running
    /\ lift_direction = "Up"
    /\ 0 < lift_floor /\ lift_floor < num_floors - 1
    /\ \E k, l \in MoveEvents :
          /\ k < l
          /\ events[k].floor = num_floors - 1
          /\ events[l].floor = 0

\* C17: from the start of a run to its end every person's id, start_floor,
\* target_floor and direction are the ones of the stored record the run
\* loaded.
C17_IdentityFieldsKept ==
    (Running \/ pc = "done") =>
        /\ Len(people_overview) = Len(people_file)
        /\ \A i \in 1 .. Len(people_overview) :
              /\ people_overview[i].id = people_file[i].id
              /\ people_overview[i].start_floor = people_file[i].start_floor
              /\ people_overview[i].target_floor = people_file[i].target_floor
              /\ people_overview[i].direction = people_file[i].direction

\* A complete run that has moved and delivered three people or more, so that
\* current_floor and delivered of every record have changed.
C17_Witness ==
    /\ pc = "done"
    /\ num_people >= 3
    /\ \A i \in 1 .. Len(people_overview) :
          /\ people_overview[i].delivered
          /\ people_overview[i].current_floor # people_file[i].current_floor
          /\ people_overview[i].start_floor = people_file[i].start_floor

C19_CollectMoveTowardsHead ==
    [][algorithm = "improved" /\ pc = "i_cmove" /\ people_pending # <<>> =>
          Abs(people_overview[people_pending[1]].start_floor - lift_floor')
              = Abs(people_overview[people_pending[1]].start_floor - lift_floor) - 1]_vars

\* The pick-ups of the person with this id after entry k of events.
PickUpsAfter(k, id) == {l \in EventsOf("PickedUp", id) : l > k}

\* C20: in the improved algorithm, from the step that makes a person the
\* only pending person to the step in which that person gets into the lift,
\* the lift makes as many moves as there are floors between the lift's floor
\* at the first of the two steps and the person's start floor.
C20_BatchingKeepsTripLength ==
    algorithm = "improved" =>
        \A k \in 1 .. Len(events) :
            (events[k].type = "Seeded" /\ PickUpsAfter(k, events[k].id) # {}) =>
                LET b == CHOOSE l \in PickUpsAfter(k, events[k].id) :
                             \A m \in PickUpsAfter(k, events[k].id) : l <= m
                IN Cardinality({m \in MoveEvents : k < m /\ m < b})
                       = Abs(events[b].floor - events[k].floor)

\* C13: a run does not change the stored records (only generate_new_sim
\* does), and every run, naive or improved, starts from the stored records,
\* all of them undelivered and at their start floor, with the lift at floor
\* 0, an empty lift and the counters at zero.
C13_RunsKeepStoredRecords ==
    [][/\ algorithm' # "none" => people_file' = people_file
       /\ (Idle /\ Running') =>
             /\ people_overview' = people_file
             /\ \A i \in 1 .. Len(people_overview') :
                   /\ ~people_overview'[i].delivered
                   /\ people_overview'[i].current_floor
                         = people_overview'[i].start_floor
             /\ lift_floor' = 0
             /\ people_lift' = <<>>
             /\ distance_travelled' = 0
             /\ num_people_delivered' = 0
             /\ num_in_lift' = 0]_vars

\* Both algorithms have run to the end on the records generated last, the
\* second of the two runs after the first had delivered everybody.
C13_Witness ==
    /\ pc = "done"
    /\ num_people >= 2
    /\ naive_total >= 0
    /\ improved_total >= 0
    /\ AllDelivered
    /\ \A i \in 1 .. Len(people_file) : ~people_file[i].delivered

\* C14: the records generate_new_sim writes are num_people records with the
\* ids 0 .. num_people - 1 in order, start and target floors within
\* 0 .. num_floors - 1 and different, current_floor the start floor,
\* delivered false, and direction "Up" for a target above the start and
\* "Down" otherwise.
C14_GeneratedRecords ==
    /\ Len(people_file) = num_people
    /\ \A i \in 1 .. Len(people_file) :
          /\ people_file[i].id = i - 1
          /\ people_file[i].start_floor \in 0 .. num_floors - 1
          /\ people_file[i].target_floor \in 0 .. num_floors - 1
          /\ people_file[i].start_floor # people_file[i].target_floor
          /\ people_file[i].current_floor = people_file[i].start_floor
          /\ people_file[i].delivered = FALSE
          /\ people_file[i].direction =
                IF people_file[i].target_floor > people_file[i].start_floor
                THEN "Up" ELSE "Down"

\* Records generated after a run that left the lift above floor 0, for
\* three people, some going up and some going down.
C14_Witness ==
    /\ pc = "idle"
    /\ lift_floor > 0
    /\ num_people >= 3
    /\ \E i, j \in 1 .. Len(people_file) :
          /\ people_file[i].direction = "Up"
          /\ people_file[j].direction = "Down"

\* The four texts of the dialog hold numbers, with at least two floors, one
\* person, a capacity of one and a delay of min_delay.
ValidInput(min_delay) ==
    /\ CanParse(line_edit_num_floors)
    /\ CanParse(line_edit_num_people)
    /\ CanParse(line_edit_lift_capacity)
    /\ CanParse(line_edit_ui_delay)
    /\ IntOf(line_edit_num_floors) >= 2
    /\ IntOf(line_edit_num_people) >= 1
    /\ IntOf(line_edit_lift_capacity) >= 1
    /\ IntOf(line_edit_ui_delay) >= min_delay

\* A step of save_sim: a step that leaves the texts of the dialog alone.  It
\* accepts the texts when valid holds and rejects them otherwise, leaving the
\* configuration as it was.
SaveAcceptsExactly(valid) ==
    (/\ line_edit_num_floors' = line_edit_num_floors
     /\ line_edit_num_people' = line_edit_num_people
     /\ line_edit_lift_capacity' = line_edit_lift_capacity
     /\ line_edit_ui_delay' = line_edit_ui_delay) =>
        IF valid
        THEN /\ lbl_save_successful' = "Configuration saved successfully!"
             /\ num_floors' = IntOf(line_edit_num_floors)
             /\ num_people' = IntOf(line_edit_num_people)
             /\ lift_capacity' = IntOf(line_edit_lift_capacity)
             /\ ui_delay' = IntOf(line_edit_ui_delay)
        ELSE /\ lbl_save_successful' # "Configuration saved successfully!"
             /\ UNCHANGED <<num_floors, num_people, lift_capacity, ui_delay>>

\* C15 as stated: save_sim accepts the input exactly when all fields are
\* present, num_floors >= 2, num_people >= 1, lift_capacity >= 1 and the
\* delay is >= 0, and rejects every other input without changing the
\* configuration.
C15_SaveAcceptsDelayFromZero == [][SaveAcceptsExactly(ValidInput(0))]_vars

\* C15 as amended: the same with a delay of at least one millisecond.
C15_SaveAcceptsDelayFromOne == [][SaveAcceptsExactly(ValidInput(1))]_vars

\* A configuration has been saved, and a later input with a delay of 0 has
\* been rejected and has left it in place.
C15_Witness ==
    /\ num_floors = 2
    /\ num_people = 2
    /\ lift_capacity = 1
    /\ line_edit_num_floors = Str(2)
    /\ line_edit_num_people = Str(1)
    /\ line_edit_lift_capacity = Str(2)
    /\ line_edit_ui_delay = Str(0)
    /\ lbl_save_successful
          = "Please configure a UI delay of at least one millisecond!"

\* The data-model invariants of a list of records in a building of floors
\* floors: different start and target floors, both within 0 .. floors - 1,
\* and no id twice.
ValidRecords(records, floors) ==
    /\ \A i \in 1 .. Len(records) :
          /\ records[i].start_floor # records[i].target_floor
          /\ records[i].start_floor \in 0 .. floors - 1
          /\ records[i].target_floor \in 0 .. floors - 1
    /\ \A i, j \in 1 .. Len(records) :
          records[i].id = records[j].id => i = j

\* C16: when the records a run has loaded violate the data-model invariants
\* for the current configuration, the run makes no move, no pick-up and no
\* drop-off.
C16_RefusesInvalidRecords ==
    (Running /\ ~ValidRecords(people_overview, num_floors)) =>
        \A k \in 1 .. Len(events) :
            events[k].type \notin {"MovedTo", "PickedUp", "DroppedOff"}

InPending(i) == \E k \in 1 .. Len(people_pending) : people_pending[k] = i

\* C21: in the improved algorithm people_pending never holds more than
\* lift_capacity people.
C21_PendingWithinCapacity ==
    algorithm = "improved" => Len(people_pending) <= lift_capacity

\* C22 as stated: in the improved algorithm nobody is both pending and in
\* the lift, nobody delivered is pending, and nobody is pending twice.
C22_PendingOnlyWaiting ==
    algorithm = "improved" =>
        /\ \A i \in 1 .. Len(people_overview) : ~(InPending(i) /\ InLift(i))
        /\ \A k \in 1 .. Len(people_pending) :
              ~people_overview[people_pending[k]].delivered
        /\ \A k, l \in 1 .. Len(people_pending) :
              people_pending[k] = people_pending[l] => k = l

\* C22 as amended: nobody delivered is pending and nobody is pending twice;
\* somebody is both pending and in the lift only inside the deliver phase
\* (after boarding en route), never when the collect phase starts, boards or
\* moves.
C22_PendingOnlyUndelivered ==
    algorithm = "improved" =>
        /\ pc \in {"i_loop", "i_board", "i_cmove", "done"} =>
              \A i \in 1 .. Len(people_overview) : ~(InPending(i) /\ InLift(i))
        /\ \A k \in 1 .. Len(people_pending) :
              ~people_overview[people_pending[k]].delivered
        /\ \A k, l \in 1 .. Len(people_pending) :
              people_pending[k] = people_pending[l] => k = l

\* A passenger who boarded en route in the deliver phase is still pending.
C22_Witness ==
    /\ algorithm = "improved"
    /\ pc = "i_dmove"
    /\ \E i \in 1 .. Len(people_overview) :
          /\ InPending(i)
          /\ InLift(i)
          /\ ~people_overview[i].delivered
          /\ people_overview[i].start_floor = lift_floor

\* The first pending person, the one the collect phase heads for.
PendingHead == people_overview[people_pending[1]]

\* C23: in the collect phase of the improved algorithm a person is appended
\* to a non-empty people_pending only if the lift is not at the start floor
\* of the first pending person, the person is undelivered and not pending
\* yet, goes the way the lift travels towards that start floor, has a target
\* floor no further from the lift than that start floor, and fewer than
\* lift_capacity - 1 people are in the lift; with lift_capacity 1 nobody is
\* appended.
C23_BatchAppendsOnlyEnRoute ==
    [][(/\ algorithm = "improved"
        /\ people_pending # <<>>
        /\ Len(people_pending') > Len(people_pending)) =>
           /\ pc = "i_loop"
           /\ SubSeq(people_pending', 1, Len(people_pending)) = people_pending
           /\ lift_floor # PendingHead.start_floor
           /\ Len(people_lift) < lift_capacity - 1
           /\ lift_capacity # 1
           /\ \A k \in Len(people_pending) + 1 .. Len(people_pending') :
                 LET en_route == people_overview[people_pending'[k]]
                 IN /\ ~en_route.delivered
                    /\ \A l \in 1 .. k - 1 : people_pending'[l] # people_pending'[k]
                    /\ en_route.direction =
                           (IF PendingHead.start_floor > lift_floor
                            THEN "Up" ELSE "Down")
                    /\ Abs(en_route.target_floor - lift_floor)
                           <= Abs(PendingHead.start_floor - lift_floor)]_vars

\* The batching loop has just added somebody whose target floor is exactly as
\* far from the lift as the start floor the lift heads down for.
C23_Witness ==
    /\ algorithm = "improved"
    /\ pc = "i_board"
    /\ lift_direction = "Down"
    /\ Len(people_pending) >= 2
    /\ \E k \in 2 .. Len(people_pending) :
          /\ people_overview[people_pending[k]].direction = "Down"
          /\ Abs(people_overview[people_pending[k]].target_floor - lift_floor)
                 = Abs(PendingHead.start_floor - lift_floor)

\* C24: in the improved algorithm, when people_pending is empty and somebody
\* is undelivered, the next iteration of the outer loop makes exactly one
\* person pending, the undelivered person with the lowest id, and moves,
\* picks up and drops off nobody.
C24_SeedsLowestUndelivered ==
    [][(/\ algorithm = "improved"
        /\ pc = "i_loop"
        /\ people_pending = <<>>
        /\ AnyUndelivered(people_overview)) =>
           /\ Len(people_pending') = 1
           /\ ~people_overview[people_pending'[1]].delivered
           /\ \A j \in 1 .. Len(people_overview) :
                 ~people_overview[j].delivered =>
                     people_overview[people_pending'[1]].id <= people_overview[j].id
           /\ pc' = "i_loop"
           /\ UNCHANGED <<lift_floor, people_lift, people_overview,
                          distance_travelled, num_in_lift, num_people_delivered>>
           /\ Len(events') = Len(events) + 1
           /\ SubSeq(events', 1, Len(events)) = events
           /\ events'[Len(events')].type = "Seeded"]_vars

\* After a delivery the outer loop has seeded people_pending again, with a
\* person who is not the first of the file.
C24_Witness ==
    /\ algorithm = "improved"
    /\ pc = "i_loop"
    /\ Len(people_pending) = 1
    /\ people_pending[1] >= 2
    /\ num_people_delivered >= 1
    /\ events # <<>>
    /\ events[Len(events)].type = "Seeded"
    /\ events[Len(events)].id = people_overview[people_pending[1]].id

\* C25: in the deliver phase of the improved algorithm, at each floor everybody
\* in the lift whose target floor is the lift's floor is dropped off first;
\* then somebody boards only if they wait at the lift's floor, go the way of
\* the first person in the lift and fewer than lift_capacity people are in the
\* lift; then the lift moves exactly one floor the way of the first person in
\* the lift.
C25_DeliverPhaseOrder ==
    [][algorithm = "improved" =>
        /\ (pc = "i_drop" /\ people_lift # <<>>) =>
              /\ pc' = "i_enroute"
              /\ lift_floor' = lift_floor
              /\ \A i \in 1 .. Len(people_overview) :
                    /\ (InLift(i) /\ people_overview[i].target_floor = lift_floor) =>
                          /\ people_overview'[i].delivered
                          /\ \A k \in 1 .. Len(people_lift') : people_lift'[k] # i
                    /\ (\E k \in 1 .. Len(people_lift') : people_lift'[k] = i) =>
                          InLift(i)
        /\ (pc = "i_enroute" /\ people_lift # <<>>) =>
              /\ pc' = "i_dmove"
              /\ lift_floor' = lift_floor
              /\ people_overview' = people_overview
              /\ SubSeq(people_lift', 1, Len(people_lift)) = people_lift
              /\ \A k \in Len(people_lift) + 1 .. Len(people_lift') :
                    LET en_route == people_overview[people_lift'[k]]
                    IN /\ en_route.start_floor = lift_floor
                       /\ ~en_route.delivered
                       /\ en_route.direction =
                              people_overview[people_lift[1]].direction
                       /\ k <= lift_capacity
        /\ pc = "i_dmove" =>
              /\ pc' = "i_drop"
              /\ people_lift' = people_lift
              /\ lift_floor' =
                     IF people_overview[people_lift[1]].direction = "Up"
                     THEN lift_floor + 1
                     ELSE lift_floor - 1]_vars

\* The en-route scan has just filled the lift and left somebody who goes the
\* same way waiting at the floor.
C25_Witness ==
    /\ algorithm = "improved"
    /\ pc = "i_dmove"
    /\ Len(people_lift) = lift_capacity
    /\ \E k \in 2 .. Len(people_lift) :
          people_overview[people_lift[k]].start_floor = lift_floor
    /\ \E i \in 1 .. Len(people_overview) :
          /\ ~InLift(i)
          /\ ~people_overview[i].delivered
          /\ people_overview[i].start_floor = lift_floor
          /\ people_overview[i].direction =
                 people_overview[people_lift[1]].direction

\* C26: in the naive algorithm somebody other than the anchor (the person of
\* the for loop) gets into the lift only in the anchor's deliver phase, only
\* at their own start floor and only if they go the anchor's way, whichever
\* way the lift is moving; so everybody in the lift goes the anchor's way.
C26_OthersBoardEnRoute ==
    /\ [](algorithm = "naive" /\ Running =>
              \A k \in 1 .. Len(people_lift) :
                  people_overview[people_lift[k]].direction
                      = people_overview[person].direction)
    /\ [][algorithm = "naive" /\ Running =>
              \A k \in 1 .. Len(people_lift') :
                  (~InLift(people_lift'[k]) /\ people_lift'[k] # person) =>
                      /\ pc = "n_enroute"
                      /\ people_lift # <<>>
                      /\ people_overview[people_lift'[k]].start_floor = lift_floor
                      /\ people_overview[people_lift'[k]].direction
                             = people_overview[person].direction]_vars

\* Somebody has just boarded en route behind an anchor who goes the other way
\* than the lift is moving.
C26_Witness ==
    /\ algorithm = "naive"
    /\ pc = "n_move"
    /\ Len(people_lift) >= 2
    /\ people_lift[1] = person
    /\ lift_direction # people_overview[person].direction
    /\ \E k \in 2 .. Len(people_lift) :
          people_overview[people_lift[k]].start_floor = lift_floor

\* C27: in the naive algorithm, after every move and its reversal rule the
\* direction is Up at floor 0 and Down at the top floor; with two floors the
\* direction flips with every move and the run still terminates with
\* everybody delivered.
C27_DirectionAtExtremes ==
    /\ [](algorithm = "naive" /\ (Running \/ pc = "done") =>
              /\ lift_floor = 0 => lift_direction = "Up"
              /\ lift_floor = num_floors - 1 => lift_direction = "Down"
              /\ num_floors = 2 =>
                    /\ Running => RunStepEnabled
                    /\ pc = "done" =>
                          AllDelivered /\ num_people_delivered = num_people)
    /\ [][(/\ algorithm = "naive"
            /\ Running
            /\ num_floors = 2
            /\ lift_floor' # lift_floor) =>
               lift_direction' # lift_direction]_vars

\* A run in a building of two floors has ended after the lift went up, down
\* and up again.
C27_Witness ==
    /\ algorithm = "naive"
    /\ num_floors = 2
    /\ pc = "done"
    /\ AllDelivered
    /\ distance_travelled = 3
    /\ lift_floor = 1
    /\ lift_direction = "Down"

\* The moves logged after event a and before event b.
MovesBetween(a, b) == Cardinality({k \in MoveEvents : a < k /\ k < b})

\* The first drop-off of the person with that id after event b, or the end of
\* the log when there is none yet.
DropOffAfter(b, id) ==
    LET drops == {d \in EventsOf("DroppedOff", id) : d > b}
    IN IF drops = {} THEN Len(events) + 1
       ELSE CHOOSE d \in drops : \A e \in drops : d <= e

\* The last event that is not a move, 0 when there is none: in the collect
\* phase of the naive algorithm every later event is a move made since the
\* anchor was selected.
LastStop ==
    LET stops == {k \in 1 .. Len(events) : events[k].type # "MovedTo"}
    IN IF stops = {} THEN 0
       ELSE CHOOSE k \in stops : \A l \in stops : k >= l

\* C28: in the naive algorithm everybody who boards is dropped off after at
\* most 2 * (num_floors - 1) moves from boarding, and the collect phase
\* reaches every anchor within 2 * (num_floors - 1) moves of selecting them.
C28_NaiveWithinOneRoundTrip ==
    algorithm = "naive" =>
        /\ \A b \in 1 .. Len(events) :
              events[b].type = "PickedUp" =>
                  MovesBetween(b, DropOffAfter(b, events[b].id))
                      <= 2 * (num_floors - 1)
        /\ pc = "n_collect" =>
              MovesBetween(LastStop, Len(events) + 1) <= 2 * (num_floors - 1)

\* Somebody was dropped off after the lift went to one end of the building
\* and all the way back past their start floor, and a later anchor was
\* reached after a turn as well.
C28_Witness ==
    /\ algorithm = "naive"
    /\ num_floors >= 3
    /\ \E b \in 1 .. Len(events) :
          /\ events[b].type = "PickedUp"
          /\ DropOffAfter(b, events[b].id) <= Len(events)
          /\ MovesBetween(b, DropOffAfter(b, events[b].id)) = 2 * num_floors - 3
    /\ pc = "n_collect"
    /\ lift_floor = people_overview[person].start_floor
    /\ MovesBetween(LastStop, Len(events) + 1) >= num_floors - 1

\* C29: with a single passenger from floor s to floor t in a building of N
\* floors, the naive algorithm ends with total distance t when t > s and
\* 2 * (N - 1) - t when t < s.
C29_NaiveSinglePassengerDistance ==
    (algorithm = "naive" /\ pc = "done" /\ num_people = 1) =>
        naive_total =
            IF people_file[1].target_floor > people_file[1].start_floor
            THEN people_file[1].target_floor
            ELSE 2 * (num_floors - 1) - people_file[1].target_floor

\* The single passenger went down from a floor below the top: the lift passed
\* their target, collected them, went on to the top and came back.
C29_Witness ==
    /\ algorithm = "naive"
    /\ pc = "done"
    /\ num_people = 1
    /\ people_file[1].target_floor < people_file[1].start_floor
    /\ people_file[1].start_floor < num_floors - 1
    /\ people_file[1].target_floor > 0
    /\ naive_total = 2 * (num_floors - 1) - people_file[1].target_floor

\* The pick-ups and drop-offs of the run, in the order they happened.
StopEvents ==
    SelectSeq(events, LAMBDA e : e.type \in {"PickedUp", "DroppedOff"})

\* The distance of serving the records from position i on one at a time,
\* with the lift at floor p: to the start floor, then to the target floor.
RECURSIVE OneByOneDistance(_, _, _)
OneByOneDistance(records, i, p) ==
    IF i > Len(records) THEN 0
    ELSE Abs(records[i].start_floor - p)
             + Abs(records[i].target_floor - records[i].start_floor)
             + OneByOneDistance(records, i + 1, records[i].target_floor)

\* C30: with lift_capacity 1 the improved algorithm serves one person at a
\* time in ascending id order (never more than one pending, never more than
\* one in the lift), and its total distance is the sum, in id order, of the
\* distance from the previous target floor (floor 0 for the first person) to
\* the start floor plus the distance from the start floor to the target floor.
C30_CapacityOneServesInTurn ==
    (algorithm = "improved" /\ lift_capacity = 1) =>
        /\ Len(people_pending) <= 1
        /\ Len(people_lift) <= 1
        /\ \A k \in 1 .. Len(StopEvents) :
              /\ StopEvents[k].id = (k - 1) \div 2
              /\ StopEvents[k].type =
                     (IF k % 2 = 1 THEN "PickedUp" ELSE "DroppedOff")
        /\ pc = "done" =>
              /\ Len(StopEvents) = 2 * num_people
              /\ improved_total = OneByOneDistance(people_file, 1, 0)

\* A run with lift_capacity 1 has ended in which the first two people could
\* have travelled together and the lift had to come back for the second.
C30_Witness ==
    /\ algorithm = "improved"
    /\ lift_capacity = 1
    /\ pc = "done"
    /\ num_people >= 3
    /\ people_file[1].start_floor = people_file[2].start_floor
    /\ people_file[1].direction = people_file[2].direction
    /\ improved_total = OneByOneDistance(people_file, 1, 0)
    /\ improved_total >= 2 * num_people

\* The people whose delivered flag is set.
Delivered == {i \in 1 .. Len(people_overview) : people_overview[i].delivered}

\* C31: in both algorithms, after every pick-up and every drop-off num_in_lift
\* is the number of people in people_lift and num_people_delivered is the
\* number of people whose delivered flag is set; neither counter is negative
\* or greater than the number of people.
C31_CountersMatchLists ==
    algorithm \in {"naive", "improved"} =>
        /\ num_in_lift = Len(people_lift)
        /\ num_people_delivered = Cardinality(Delivered)
        /\ num_in_lift \in 0 .. Len(people_overview)
        /\ num_people_delivered \in 0 .. Len(people_overview)

\* Two people are in the lift after somebody else was dropped off.
C31_Witness ==
    /\ Running
    /\ num_in_lift >= 2
    /\ num_in_lift = Len(people_lift)
    /\ num_people_delivered >= 1
    /\ num_people_delivered = Cardinality(Delivered)
    /\ events # <<>>
    /\ events[Len(events)].type = "PickedUp"

\* C32: in both algorithms the lift is empty whenever the outer loop selects:
\* the deliver phase returns only with an empty lift, so everybody who was
\* picked up is delivered by then, and nobody is in the lift during the
\* collect phase of the naive algorithm.
C32_LiftEmptyAtSelection ==
    /\ pc \in {"n_loop", "n_collect", "i_loop", "i_board"} => people_lift = <<>>
    /\ pc \in {"n_loop", "i_loop"} =>
          \A k \in 1 .. Len(events) :
              events[k].type = "PickedUp" =>
                  \A i \in 1 .. Len(people_overview) :
                      people_overview[i].id = events[k].id =>
                          people_overview[i].delivered

\* The naive lift is on its way to a later anchor after a deliver phase that
\* carried two people.
C32_Witness ==
    /\ algorithm = "naive"
    /\ pc = "n_collect"
    /\ person >= 3
    /\ people_lift = <<>>
    /\ num_people_delivered >= 2
    /\ lift_floor # people_overview[person].start_floor
    /\ \E k \in 1 .. Len(events) - 1 :
          events[k].type = "PickedUp" /\ events[k + 1].type = "PickedUp"

\* The step logs a pick-up, a drop-off or a move.
Progress ==
    /\ Len(events') > Len(events)
    /\ events'[Len(events')].type \in {"PickedUp", "DroppedOff", "MovedTo"}

\* Every pass of the while loop of the naive algorithm starts by selecting
\* an anchor, and the collect phase moves until it picks the anchor up.
NaivePassProgress ==
    algorithm = "naive" =>
        /\ (pc = "n_loop" /\ person = 0 /\ pc' # "done") => pc' = "n_collect"
        /\ pc = "n_collect" => Progress

\* A pass of the while loop of the improved algorithm that starts with
\* somebody pending picks somebody up or moves the lift in its collect phase.
ImprovedCollectProgress ==
    algorithm = "improved" =>
        /\ (pc = "i_loop" /\ people_pending # <<>> /\ pc' # "done") =>
              pc' = "i_board"
        /\ pc = "i_board" =>
              /\ pc' = "i_cmove"
              /\ people_pending' = <<>> => Progress
        /\ (pc = "i_cmove" /\ people_pending # <<>>) => Progress

\* C33 as stated: every full pass of the outer loop of either algorithm picks
\* somebody up, drops somebody off or moves the lift; a pass of the improved
\* loop that is over after one step has done so in that step.
C33_EveryPassMakesProgress ==
    [][/\ NaivePassProgress
       /\ ImprovedCollectProgress
       /\ (algorithm = "improved" /\ pc = "i_loop" /\ pc' = "i_loop") =>
             Progress]_vars

\* C33 as amended: every pass of the naive loop and every pass of the
\* improved loop that starts with somebody pending picks somebody up, drops
\* somebody off or moves the lift; a pass of the improved loop that starts
\* with nobody pending only makes one person pending, so the next pass
\* starts with somebody pending.
C33_NoTwoIdlePasses ==
    [][/\ NaivePassProgress
       /\ ImprovedCollectProgress
       /\ (algorithm = "improved" /\ pc = "i_loop" /\ pc' = "i_loop") =>
             /\ people_pending = <<>>
             /\ Len(people_pending') = 1
             /\ ~Progress]_vars

\* The improved loop has seeded people_pending twice and the pass after the
\* second seeding has picked somebody up and dropped them off.
C33_Witness ==
    /\ algorithm = "improved"
    /\ pc = "i_loop"
    /\ Cardinality({k \in 1 .. Len(events) : events[k].type = "Seeded"}) >= 2
    /\ events[Len(events)].type = "DroppedOff"
    /\ AnyUndelivered(people_overview)
    /\ people_pending = <<>>

\* C34: whenever a run starts, the stored records match the configuration:
\* there are exactly num_people of them and every start floor and target
\* floor lies within 0 .. num_floors - 1.
C34_RunStartsOnMatchingRecords ==
    (pc \in {"n_loop", "i_loop"} /\ steps = 0) =>
        /\ Len(people_file) = num_people
        /\ \A i \in 1 .. Len(people_file) :
              /\ people_file[i].start_floor \in 0 .. num_floors - 1
              /\ people_file[i].target_floor \in 0 .. num_floors - 1

\* A press of 'Save Simulation': a step that leaves the texts of the dialog
\* as they are.
SavePressed ==
    /\ line_edit_num_floors' = line_edit_num_floors
    /\ line_edit_num_people' = line_edit_num_people
    /\ line_edit_lift_capacity' = line_edit_lift_capacity
    /\ line_edit_ui_delay' = line_edit_ui_delay

\* C35: when save_sim of src/src/app.py rejects its input (an empty field,
\* num_floors <= 1, num_people <= 0, lift_capacity <= 0 or ui_delay <= 0),
\* num_floors, num_people, lift_capacity and ui_delay are left exactly as
\* they were before the call.
C35_RejectedSaveKeepsConfiguration ==
    [][(SavePressed /\ ~ValidInput(1)) =>
           UNCHANGED <<num_floors, num_people, lift_capacity, ui_delay>>]_vars

\* A configuration was saved, and a later save with one floor was rejected
\* and left it in place.
C35_Witness ==
    /\ lbl_save_successful = "Please configure at least two floors!"
    /\ line_edit_num_floors = Str(1)
    /\ line_edit_num_people = Str(2)
    /\ num_floors = 2
    /\ num_people = 1
    /\ lift_capacity = 2
    /\ ui_delay = 1

\* C36: when save_sim of src/lift_control.py rejects its input, num_floors,
\* num_people, lift_capacity and ui_delay are left exactly as they were
\* before the call, so that generate_new_sim still finds num_floors >= 2.
C36_LegacyRejectedSaveKeepsConfiguration ==
    /\ [](num_floors >= 2)
    /\ [][(SavePressed /\ ~ValidInput(1)) =>
              UNCHANGED <<num_floors, num_people, lift_capacity, ui_delay>>]_vars

\* C37: for num_floors >= 2 the loop that draws target_floor until it
\* differs from start_floor always has an accepting draw, whatever
\* start_floor is, and ends when the draws are fair; the generation of all
\* num_people records ends and writes them.
C37_GenerationTerminates ==
    /\ [](pc = "g_target" =>
              \E target_floor \in 0 .. num_floors - 1 :
                  target_floor # draw_start_floor)
    /\ [](pc = "idle" => people_file \in GeneratedPeople(num_people, num_floors))
    /\ <>(pc = "idle" /\ Len(people_file) = num_people)

\* The target floor drawn for a later record equals its start floor, the top
\* floor, and the loop has to draw again.
C37_Witness ==
    /\ pc = "g_target"
    /\ Len(people_overview) >= 1
    /\ draw_start_floor = num_floors - 1
    /\ draw_target_floor = draw_start_floor

\* C38: every record either generator writes to the passenger file has the
\* direction "Up" when its target floor is above its start floor and
\* "Down" otherwise, the two values the algorithms compare with.
C38_DirectionIsUpOrDown ==
    \A i \in 1 .. Len(people_file) :
        people_file[i].direction =
            IF people_file[i].target_floor > people_file[i].start_floor
            THEN "Up" ELSE "Down"

====
